---- MODULE Spec2Model ----
(***************************************************************************)
(* A model of the vercel_blob client library (src/vercel_blob/blob_store.py) *)
(*                                                                         *)
(* Five specifications share this module:                                  *)
(*   Spec      one call of put / list / head / delete / copy, including    *)
(*             the multipart create / upload / complete protocol of put    *)
(*             with its ThreadPoolExecutor;                                *)
(*   RetrySpec one call of _request_factory followed by                    *)
(*             _response_handler, with the full log of its attempts;       *)
(*   SplitSpec the chunk preparation of put as a pure function of the      *)
(*             payload and the chunk size;                                 *)
(*   DownloadSpec one call of download_file with the local file system;    *)
(*   HeaderSpec the request headers put and copy build from the options.   *)
(*                                                                         *)
(* Sizes in Spec are counted in MiB, so that _MULTIPART_CHUNK_SIZE is 5;   *)
(* SplitSpec covers arbitrary chunk sizes and payload lengths.             *)
(***************************************************************************)
EXTENDS Integers, Sequences, FiniteSets, TLC

\* ------------------------------------------------------------------ bounds
MaxLen == 12
MaxWorkers == 3
MaxSplitLen == 5
MaxSplitChunk == 3
\* bytes the transport asks a file-like body for in one read
ReadSize == 2
\* bytes iter_content yields in one piece
StreamChunk == 2
\* length of the longest downloaded body
MaxContent == 3

\* ------------------------------------------------------- program constants
MAX_RETRY_REQUEST_RETRIES == 3
MULTIPART_CHUNK_SIZE == 5
DEFAULT_MAX_CONCURRENT_UPLOADS == 5
\* "For files larger than 25MB, uses multipart upload"
LARGE_FILE_SIZE == 25

\* Python's None, and an absent dictionary key or header
NoVal == "None"
\* the host every operation talks to
VERCEL_BLOB_API_BASE_URL == "https://blob.vercel-storage.com"

GatewayStatuses == {502, 503, 504}
\* the statuses the remote service answers with in this model
Statuses == {200, 201, 404, 500, 502, 503, 504}

Min(a, b) == IF a <= b THEN a ELSE b

VARIABLES
    \* ---- Spec: the call and its inputs
    op,          \* the function called
    path,        \* path argument (put) / to_path (copy)
    data,        \* payload of put
    multipart,   \* multipart flag of put
    verbose,     \* verbose flag
    options,     \* options dictionary: token, maxConcurrentUploads
    envToken,    \* value of BLOB_READ_WRITE_TOKEN
    delete_url,  \* url argument of delete
    \* ---- Spec: the calling thread
    pc,          \* position of the calling thread
    req,         \* state of the _request_factory call of the calling thread
    upload_info, \* parsed response of the create call
    chunks,      \* chunks prepared by put
    parts,       \* the pre-allocated parts list of put
    task,        \* one future per chunk submitted to the executor
    pending,     \* exception raised inside the with-block, not yet propagated
    shuffled,    \* as_completed has yielded a part after one with a higher number
    result,      \* what the call returned or raised
    \* ---- Spec: the observable traffic
    issued,      \* the requests handed to _request_factory
    calls,       \* number of _request_factory calls per kind
    \* ---- RetrySpec
    rq,          \* state of the _request_factory call
    rmode,       \* which of its three branches the call takes
    rlog,        \* outcome of each attempt so far
    rres,        \* what _response_handler returned or raised
    \* ---- SplitSpec
    sdata,       \* payload
    ssize,       \* chunk size
    schunks,     \* prepared chunks
    spc,
    \* ---- DownloadSpec
    dpath,       \* path argument of download_file
    dverbose,    \* verbose flag
    doptions,    \* options dictionary
    denvToken,   \* value of BLOB_READ_WRITE_TOKEN
    dirs,        \* the directories that exist below the working directory
    dpc,         \* position of the call
    drq,         \* state of its _request_factory call
    dissued,     \* the requests handed to _request_factory
    dfile,       \* the local file the call has written
    dres,        \* what the call returned or raised
    \* ---- HeaderSpec
    hoptions,    \* options dictionary
    hput,        \* headers of put
    hcopy,       \* headers of copy
    hcreate,     \* headers of the create call of a multipart put
    hpc,
    \* ---- EntrySpec
    cvia,        \* the function called: the package's put or blob_store.put
    cargs,       \* the arguments of the call
    coptimize,   \* the interpreter runs with -O
    cpc,
    cres,        \* how the call ended before its first request, if it did
    csent,       \* the requests handed to the issuer, with their timeouts
    \* ---- EtagSpec
    eresp,       \* final response of the request of a part
    epart,       \* part number
    enow,        \* int(time.time())
    edesc,       \* what _upload_part returns
    eparts,      \* the parts of the complete call
    epc,
    \* ---- SetupSpec
    mpath,       \* pathname argument of put
    moptions,    \* options dictionary
    menvToken,   \* value of BLOB_READ_WRITE_TOKEN
    mworkers,    \* max_concurrent_uploads of put
    mpool,       \* max_workers the executor is created with
    msent,       \* the requests handed to the issuer
    mres,        \* how the call ended before its executor, if it did
    mpc,
    \* ---- ProgressSpec
    gdata,       \* payload
    gverbose,    \* verbose flag
    gworkers,    \* max_workers of the executor
    gtask,       \* position of upload_part_with_progress, per part
    gseen,       \* the counter value a worker has read inside pbar.update
    gbar,        \* the progress bar: its total and its counter n
    gupdates,    \* the calls of pbar.update, in order
    gres,        \* how the with-block ended
    gpc

callVars == <<op, path, data, multipart, verbose, options, envToken, delete_url>>
mainVars == <<pc, req, upload_info, chunks, parts, task, pending, shuffled, result>>
netVars == <<issued, calls>>
putVars == <<callVars, mainVars, netVars>>
retryVars == <<rq, rmode, rlog, rres>>
splitVars == <<sdata, ssize, schunks, spc>>
downloadVars == <<dpath, dverbose, doptions, denvToken, dirs, dpc, drq, dissued, dfile, dres>>
headerVars == <<hoptions, hput, hcopy, hcreate, hpc>>
entryVars == <<cvia, cargs, coptimize, cpc, cres, csent>>
etagVars == <<eresp, epart, enow, edesc, eparts, epc>>
setupVars == <<mpath, moptions, menvToken, mworkers, mpool, msent, mres, mpc>>
progressVars == <<gdata, gverbose, gworkers, gtask, gseen, gbar, gupdates, gres, gpc>>
vars == <<putVars, retryVars, splitVars, downloadVars, headerVars, entryVars, etagVars,
          setupVars, progressVars>>

\* ------------------------------------------------ results and exceptions
\* the fields a parsed JSON body can carry in this model
NoBody == [id |-> NoVal, uploadId |-> NoVal, key |-> NoVal, etag |-> NoVal, ETag |-> NoVal]
Body(i, u, k, e, E) == [id |-> i, uploadId |-> u, key |-> k, etag |-> e, ETag |-> E]

Return(v) == [kind |-> "return", value |-> v, error |-> NoVal]
Raise(e) == [kind |-> "raise", value |-> NoBody, error |-> e]
NoResult == [kind |-> "none", value |-> NoBody, error |-> NoVal]

\* ------------------------------------------------------- credentials
\* a resolver that takes an empty variable for a token
get_auth_token_from_env_unset_only(env) ==
    IF env = NoVal
    THEN [kind |-> "raise", token |-> NoVal, error |-> "BlobConfigError"]
    ELSE [kind |-> "return", token |-> env, error |-> NoVal]

get_auth_token_from_env(env) ==
    IF env = NoVal \/ env = ""
    THEN [kind |-> "raise", token |-> NoVal, error |-> "BlobConfigError"]
    ELSE [kind |-> "return", token |-> env, error |-> NoVal]

get_auth_token(opts, env) ==
    IF opts.token # NoVal
    THEN [kind |-> "return", token |-> opts.token, error |-> NoVal]
    ELSE get_auth_token_from_env(env)

\* ------------------------------------------------------- Request Issuer
\* One attempt ends in a transport exception or in a response.  A response
\* has a status, a body that json() parses or not, an etag header, and in the
\* streamed download branch a body stream that ends well or breaks.  The
\* raw bytes of the body matter to download_file only.
Exc == [exc |-> TRUE, status |-> 0, jsonOk |-> FALSE, body |-> NoBody, etagHdr |-> NoVal,
        stream |-> "ok", content |-> <<>>]
Response(s, ok, b, h, st) ==
    [exc |-> FALSE, status |-> s, jsonOk |-> ok, body |-> b, etagHdr |-> h,
     stream |-> st, content |-> <<>>]
\* a response to a download: raw bytes, no JSON
Download(s, c, st) ==
    [exc |-> FALSE, status |-> s, jsonOk |-> FALSE, body |-> NoBody, etagHdr |-> NoVal,
     stream |-> st, content |-> c]

\* what _request_factory hands back: None or the response
NoResponse == [isNone |-> TRUE, status |-> 0, jsonOk |-> FALSE, body |-> NoBody, etagHdr |-> NoVal,
               content |-> <<>>]

\* iter_content(chunk_size) of a streamed body: the pieces it yields
RECURSIVE iter_content(_, _)
iter_content(c, chunk_size) ==
    IF c = <<>> THEN <<>>
    ELSE LET n == Min(chunk_size, Len(c))
         IN <<SubSeq(c, 1, n)>> \o iter_content(SubSeq(c, n + 1, Len(c)), chunk_size)

\* content += chunk for every chunk that is not empty
RECURSIVE JoinChunks(_)
JoinChunks(cs) ==
    IF cs = <<>> THEN <<>>
    ELSE (IF Head(cs) # <<>> THEN Head(cs) ELSE <<>>) \o JoinChunks(Tail(cs))

\* the content of the response a branch returns: the download branch
\* rebuilds it from the stream
ContentOf(mode, o) ==
    IF mode = "download" THEN JoinChunks(iter_content(o.content, StreamChunk)) ELSE o.content

Received(mode, o) ==
    [isNone |-> FALSE, status |-> o.status, jsonOk |-> o.jsonOk, body |-> o.body,
     etagHdr |-> o.etagHdr, content |-> ContentOf(mode, o)]

\* branch of _request_factory taken by a call
Mode(verb, method, hasData) ==
    IF verb /\ method \in {"PUT", "POST"} /\ hasData THEN "upload"
    ELSE IF verb /\ method = "GET" THEN "download"
    ELSE "plain"

NewRequest == [attempt |-> 0, done |-> FALSE, resp |-> NoResponse]

\* an issuer that retries on every 5xx status
ReturnsResponseBelow500(mode, o) ==
    /\ ~o.exc
    /\ o.status < 500
    /\ ~(mode = "download" /\ o.stream = "exc")

\* does the attempt with outcome o return its response to the caller
ReturnsResponse(mode, o) ==
    /\ ~o.exc
    /\ o.status \notin GatewayStatuses
    /\ ~(mode = "download" /\ o.stream = "exc")

\* a loop that runs once more
LastAttemptOneMore(a) == a > MAX_RETRY_REQUEST_RETRIES

\* the loop runs for attempt in range(1, _MAX_RETRY_REQUEST_RETRIES + 1)
LastAttempt(a) == a >= MAX_RETRY_REQUEST_RETRIES

\* one iteration of the retry loop of _request_factory
request_factory(r, mode, o) ==
    LET a == r.attempt + 1 IN
    IF ReturnsResponse(mode, o)
    THEN [attempt |-> a, done |-> TRUE, resp |-> Received(mode, o)]
    ELSE [attempt |-> a, done |-> LastAttempt(a), resp |-> NoResponse]

\* a handler that lets every 2xx status through
response_handler_any_2xx(resp) ==
    IF resp.isNone THEN Raise("BlobRequestError")
    ELSE IF resp.status \notin 200..299
         THEN IF resp.jsonOk THEN Raise("BlobRequestError") ELSE Raise("JSONDecodeError")
         ELSE IF resp.jsonOk THEN Return(resp.body) ELSE Raise("JSONDecodeError")

\* _response_handler
response_handler(resp) ==
    IF resp.isNone THEN Raise("BlobRequestError")
    ELSE IF resp.status # 200
         THEN IF resp.jsonOk THEN Raise("BlobRequestError") ELSE Raise("JSONDecodeError")
         ELSE IF resp.jsonOk THEN Return(resp.body) ELSE Raise("JSONDecodeError")

\* ------------------------------------------------------- Part Splitter
\* total_parts with the division rounding down
total_parts_floor(len, size) == len \div size

\* a count that gives an empty payload one empty chunk
total_parts_at_least_one(len, size) ==
    IF len = 0 THEN 1 ELSE (len + size - 1) \div size

\* total_parts = (len(data) + size - 1) // size
total_parts(len, size) == (len + size - 1) \div size

\* the chunks numbered from 0, as the loop index is
PrepareChunksFromZero(d, size) ==
    [n \in 1..total_parts(Len(d), size) |->
        LET start == (n - 1) * size
            end == Min(start + size, Len(d))
        IN [partNumber |-> n - 1, bytes |-> SubSeq(d, start + 1, end)]]

\* chunks.append((i + 1, data[start:end])) for i in range(total_parts)
PrepareChunks(d, size) ==
    [n \in 1..total_parts(Len(d), size) |->
        LET start == (n - 1) * size
            end == Min(start + size, Len(d))
        IN [partNumber |-> n, bytes |-> SubSeq(d, start + 1, end)]]

\* ------------------------------------------------------- Part Uploader
\* f"\"part-{part_number}-{int(time.time())}\""
FallbackEtag(part_number, now) ==
    "\"part-" \o ToString(part_number) \o "-" \o ToString(now) \o "\""

\* an etag read from the body before the headers
PartEtagBodyFirst(resp, part_number, now) ==
    LET fromResp ==
            IF resp.body.etag # NoVal THEN resp.body.etag
            ELSE IF resp.body.ETag # NoVal THEN resp.body.ETag
            ELSE IF resp.etagHdr # NoVal /\ resp.etagHdr # "" THEN resp.etagHdr
            ELSE NoVal
    IN IF fromResp = NoVal \/ fromResp = ""
       THEN FallbackEtag(part_number, now)
       ELSE fromResp

\* an etag that stays empty when the response has none
PartEtagNoFallback(resp, part_number, now) ==
    IF resp.etagHdr # NoVal /\ resp.etagHdr # "" THEN resp.etagHdr
    ELSE IF resp.body.etag # NoVal THEN resp.body.etag
    ELSE IF resp.body.ETag # NoVal THEN resp.body.ETag
    ELSE ""

\* the etag of a part: response header first, then the body's etag, then
\* its ETag, and a placeholder built from the part number and the time
PartEtag(resp, part_number, now) ==
    LET fromResp ==
            IF resp.etagHdr # NoVal /\ resp.etagHdr # "" THEN resp.etagHdr
            ELSE IF resp.body.etag # NoVal THEN resp.body.etag
            ELSE IF resp.body.ETag # NoVal THEN resp.body.ETag
            ELSE NoVal
    IN IF fromResp = NoVal \/ fromResp = ""
       THEN FallbackEtag(part_number, now)
       ELSE fromResp

NoPart == [partNumber |-> 0, etag |-> NoVal]

\* a part that goes back to the queue when its request has failed
upload_part_requeued(r, part_number, now) ==
    LET h == response_handler(r.resp) IN
    IF h.kind = "raise"
    THEN [st |-> "queued", info |-> NoPart, error |-> NoVal]
    ELSE [st |-> "ok", info |-> [partNumber |-> part_number, etag |-> PartEtag(r.resp, part_number, now)],
          error |-> NoVal]

\* what _upload_part makes of the final state r of its request
upload_part(r, part_number, now) ==
    LET h == response_handler(r.resp) IN
    IF h.kind = "raise"
    THEN [st |-> "failed", info |-> NoPart, error |-> h.error]
    ELSE [st |-> "ok", info |-> [partNumber |-> part_number, etag |-> PartEtag(r.resp, part_number, now)],
          error |-> NoVal]

\* ------------------------------------------------------- Upload Coordinator
\* max_concurrent_uploads as put derives it from the options
\* isinstance(v, int): a bool is an int
IsInstanceInt(v) == v.type \in {"int", "bool"}

\* a worker count that only turns negative numbers down
max_concurrent_uploads_nonnegative(opts) ==
    LET m == opts.maxConcurrentUploads IN
    IF ~IsInstanceInt(m) \/ m.val < 0 THEN DEFAULT_MAX_CONCURRENT_UPLOADS ELSE m.val

max_concurrent_uploads(opts) ==
    LET m == opts.maxConcurrentUploads IN
    IF ~IsInstanceInt(m) \/ m.val < 1 THEN DEFAULT_MAX_CONCURRENT_UPLOADS ELSE m.val

\* part numbers of the futures in a given state
TasksIn(states) == {n \in DOMAIN task : task[n].st \in states}
InFlight == TasksIn({"running"})
Resolved == TasksIn({"ok", "failed"})

\* a pool that starts one worker too many
WorkerFreeOneMore(running, max_workers) == running <= max_workers

\* a worker of the executor is free to take a work item
WorkerFree(running, max_workers) == running < max_workers

\* the descriptor put into the first free slot, in order of arrival
StorePartInArrivalOrder(ps, index, part_info) ==
    LET k == CHOOSE i \in 1..Len(ps) : ps[i] = NoPart /\ \A j \in 1..(i - 1) : ps[j] # NoPart
    IN [ps EXCEPT ![k] = part_info]

\* parts[index] = part_info
StorePart(ps, index, part_info) == [ps EXCEPT ![index + 1] = part_info]

\* formatted_parts: the parts that are dicts with partNumber and etag
RECURSIVE formatted_parts(_)
formatted_parts(ps) ==
    IF ps = <<>> THEN <<>>
    ELSE IF Head(ps) # NoPart
         THEN <<Head(ps)>> \o formatted_parts(Tail(ps))
         ELSE formatted_parts(Tail(ps))

\* ------------------------------------------------------- requests on the wire
\* ProgressFile.read(size) called from the given position until it returns
\* b"": everything the transport reads from the wrapped payload
RECURSIVE ProgressFileRead(_, _, _)
ProgressFileRead(d, position, size) ==
    IF position >= Len(d) THEN <<>>
    ELSE LET chunk == SubSeq(d, position + 1, Min(position + size, Len(d)))
         IN chunk \o ProgressFileRead(d, position + Len(chunk), size)

\* the body session.request sends: in the upload branch the payload goes
\* through a ProgressFile
SentBody(mode, d) == IF mode = "upload" THEN ProgressFileRead(d, 0, ReadSize) ELSE d

Kinds == {"list", "put", "head", "delete", "copy", "create", "upload", "complete"}

\* requests.utils.quote: the characters outside the unreserved set and "/"
\* become percent escapes
QuoteChar(c) ==
    CASE c = " " -> "%20"
      [] c = "%" -> "%25"
      [] c = "?" -> "%3F"
      [] OTHER -> c

RECURSIVE quote(_)
quote(s) ==
    IF Len(s) = 0 THEN ""
    ELSE QuoteChar(SubSeq(s, 1, 1)) \o quote(SubSeq(s, 2, Len(s)))

\* the x-mpu-key header of a request, left out when there is no upload
MpuKey(info) == IF info.key = NoVal THEN NoVal ELSE quote(info.key)

\* a request whose x-mpu-key header is the key as the create call returned it
WireRawKey(kind, method, url, token, body, hasData, json, part_number, info) ==
    [kind |-> kind, method |-> method, url |-> url, authorization |-> "Bearer " \o token,
     data |-> body, hasData |-> hasData, json |-> json,
     partNumber |-> part_number, uploadId |-> info.uploadId, key |-> info.key]

\* a request that leaves the payload out
WireWithoutBody(kind, method, url, token, body, hasData, json, part_number, info) ==
    [kind |-> kind, method |-> method, url |-> url, authorization |-> "Bearer " \o token,
     data |-> <<>>, hasData |-> FALSE, json |-> json,
     partNumber |-> part_number, uploadId |-> info.uploadId, key |-> MpuKey(info)]

Wire(kind, method, url, token, body, hasData, json, part_number, info) ==
    [kind |-> kind, method |-> method, url |-> url, authorization |-> "Bearer " \o token,
     data |-> body, hasData |-> hasData, json |-> json,
     partNumber |-> part_number, uploadId |-> info.uploadId, key |-> MpuKey(info)]

\* hand one request to _request_factory
Issue(w) ==
    /\ issued' = issued \cup {w}
    /\ calls' = [calls EXCEPT ![w.kind] = @ + 1]

\* ------------------------------------------------------- the environment
Paths == {"dir/big.bin"}
BlobUrl == "https://store.public.blob.vercel-storage.com/x.txt"
Ops == {"put", "list", "head", "delete", "copy"}

\* a payload of n MiB whose bytes tell their position
Payload(n) == [i \in 1..n |-> i % 256]

\* values of the url argument of delete: a string, a list whose elements are
\* strings or not, or a value of another type
OtherUrl == "https://store.public.blob.vercel-storage.com/y.txt"
StrItem(v) == [isStr |-> TRUE, val |-> v]
IntItem == [isStr |-> FALSE, val |-> "7"]
StrArg(v) == [type |-> "str", val |-> v, items |-> <<>>]
ListArg(l) == [type |-> "list", val |-> NoVal, items |-> l]
OtherArg(t) == [type |-> t, val |-> NoVal, items |-> <<>>]
DeleteArgs ==
    {StrArg(BlobUrl), OtherArg("None"), OtherArg("int"), OtherArg("tuple")}
        \cup {ListArg(l) : l \in {<<>>, <<StrItem(BlobUrl)>>,
                                  <<StrItem(BlobUrl), StrItem(OtherUrl)>>,
                                  <<IntItem>>, <<StrItem(BlobUrl), IntItem>>}}

ConcurrencyOptions ==
    {[type |-> "absent", val |-> 0]}
        \cup {[type |-> "int", val |-> v] : v \in 0..MaxWorkers}
NoConcurrencyOption == [type |-> "absent", val |-> 0]

ErrorBody == Body("error", NoVal, NoVal, NoVal, NoVal)
BlobBody == Body("blob-1", NoVal, NoVal, NoVal, NoVal)

\* bodies and etag headers of the 200 responses to a request of a kind
Bodies(kind) ==
    IF kind = "create"
    THEN {Body(NoVal, u, k, NoVal, NoVal) : u \in {NoVal, "upload-1"}, k \in {NoVal, "dir/key 1"}}
    ELSE {BlobBody}
EtagHeaders(kind) == IF kind = "upload" THEN {NoVal, "etag-h"} ELSE {NoVal}

\* the ways one attempt of a request of a kind can end
Outcomes(kind) ==
    {Exc}
        \cup {Response(s, FALSE, NoBody, NoVal, "ok") : s \in Statuses}
        \cup {Response(s, TRUE, ErrorBody, NoVal, "ok") : s \in Statuses \ {200}}
        \cup {Response(200, TRUE, b, h, "ok") : b \in Bodies(kind), h \in EtagHeaders(kind)}

NoTask == [st |-> "unsubmitted", attempt |-> 0, info |-> NoPart, error |-> NoVal, collected |-> FALSE]

\* what download_file hands back: nothing yet, an exception, or a value that
\* is None or bytes
NoOutcome == [kind |-> "none", isNone |-> FALSE, bytes |-> <<>>, error |-> NoVal]
ReturnNone == [kind |-> "return", isNone |-> TRUE, bytes |-> <<>>, error |-> NoVal]
ReturnBytes(b) == [kind |-> "return", isNone |-> FALSE, bytes |-> b, error |-> NoVal]
RaiseFrom(e) == [kind |-> "raise", isNone |-> FALSE, bytes |-> <<>>, error |-> e]

\* the file download_file writes
NoFile == [written |-> FALSE, dir |-> "", name |-> NoVal, content |-> <<>>]

\* the headers dictionary of a request; NoVal stands for a header left out
NoHeaders ==
    [kind |-> "none", error |-> NoVal, access |-> NoVal, authorization |-> NoVal,
     xApiVersion |-> NoVal, xContentType |-> NoVal, xCacheControlMaxAge |-> NoVal,
     xAddRandomSuffix |-> NoVal, xAllowOverwrite |-> NoVal, xMpuAction |-> NoVal]

\* a Python value of an option: None (the option is absent), a str, a bool
\* or an int
PyNone == [type |-> "NoneType", val |-> NoVal]
PyStr(v) == [type |-> "str", val |-> v]
PyBool(v) == [type |-> "bool", val |-> v]
PyInt(v) == [type |-> "int", val |-> v]

NoOptions ==
    [token |-> NoVal, cacheControlMaxAge |-> NoVal, addRandomSuffix |-> PyNone,
     allowOverwrite |-> PyNone]

DownloadIdle ==
    /\ dpath = ""
    /\ dverbose = FALSE
    /\ doptions = [token |-> NoVal]
    /\ denvToken = NoVal
    /\ dirs = {}
    /\ dpc = "idle"
    /\ drq = NewRequest
    /\ dissued = {}
    /\ dfile = NoFile
    /\ dres = NoOutcome

HeaderIdle ==
    /\ hoptions = NoOptions
    /\ hput = NoHeaders
    /\ hcopy = NoHeaders
    /\ hcreate = NoHeaders
    /\ hpc = "idle"

\* the arguments of a call of put: the types of the positional ones, the
\* keyword arguments given (NoVal: not given), and the timeout entry of the
\* options dictionary (0: no such entry)
NoArgs ==
    [path |-> "str", data |-> "bytes", options |-> "dict",
     multipart |-> NoVal, verbose |-> NoVal, timeout |-> 0, optTimeout |-> 0]

EntryIdle ==
    /\ cvia = "blob_store"
    /\ cargs = NoArgs
    /\ coptimize = FALSE
    /\ cpc = "idle"
    /\ cres = NoVal
    /\ csent = {}

SetupIdle ==
    /\ mpath = ""
    /\ moptions = [token |-> NoVal, maxConcurrentUploads |-> NoConcurrencyOption]
    /\ menvToken = NoVal
    /\ mworkers = 0
    /\ mpool = 0
    /\ msent = {}
    /\ mres = NoVal
    /\ mpc = "idle"

ProgressIdle ==
    /\ gdata = <<>>
    /\ gverbose = FALSE
    /\ gworkers = 0
    /\ gtask = <<>>
    /\ gseen = <<>>
    /\ gbar = [total |-> 0, n |-> 0]
    /\ gupdates = <<>>
    /\ gres = NoVal
    /\ gpc = "idle"

EtagIdle ==
    /\ eresp = NoResponse
    /\ epart = 1
    /\ enow = 0
    /\ edesc = NoPart
    /\ eparts = <<>>
    /\ epc = "idle"

RetryIdle ==
    /\ rq = NewRequest
    /\ rmode = "plain"
    /\ rlog = <<>>
    /\ rres = NoResult

SplitIdle ==
    /\ sdata = <<>>
    /\ ssize = 1
    /\ schunks = <<>>
    /\ spc = "idle"

Init ==
    /\ op \in Ops
    /\ path \in Paths
    /\ multipart \in (IF op = "put" THEN BOOLEAN ELSE {FALSE})
    /\ verbose \in (IF op \in {"put", "copy"} /\ ~multipart THEN BOOLEAN ELSE {FALSE})
    /\ data \in (IF op = "put"
                 THEN {Payload(n) : n \in 0..MaxLen}
                          \cup (IF multipart THEN {} ELSE {Payload(LARGE_FILE_SIZE + 1)})
                 ELSE {<<>>})
    /\ options \in [token : {NoVal, "tok-opt"},
                    maxConcurrentUploads :
                        IF op = "put" /\ multipart THEN ConcurrencyOptions ELSE {NoConcurrencyOption}]
    /\ envToken \in {NoVal, "", "tok-env"}
    /\ delete_url \in (IF op = "delete" THEN DeleteArgs ELSE {StrArg(BlobUrl)})
    /\ pc = "start"
    /\ req = NewRequest
    /\ upload_info = NoBody
    /\ chunks = <<>>
    /\ parts = <<>>
    /\ task = <<>>
    /\ pending = NoVal
    /\ shuffled = FALSE
    /\ result = NoResult
    /\ issued = {}
    /\ calls = [k \in Kinds |-> 0]
    /\ RetryIdle
    /\ SplitIdle
    /\ DownloadIdle
    /\ HeaderIdle
    /\ EntryIdle
    /\ EtagIdle
    /\ SetupIdle
    /\ ProgressIdle

\* ------------------------------------------------------- single-request operations
\* build the headers (resolving the token) and hand the request to the issuer
CallOp(kind, method, url, body, hasData) ==
    LET t == get_auth_token(options, envToken) IN
    IF t.kind = "raise"
    THEN /\ result' = Raise(t.error)
         /\ pc' = "done"
         /\ UNCHANGED <<req, netVars>>
    ELSE /\ Issue(Wire(kind, method, url, t.token,
                       SentBody(Mode(verbose, method, hasData), body), hasData, <<>>, 0, NoBody))
         /\ req' = NewRequest
         /\ pc' = "request"
         /\ UNCHANGED result

list ==
    /\ pc = "start" /\ op = "list"
    /\ CallOp("list", "GET", VERCEL_BLOB_API_BASE_URL, <<>>, FALSE)
    /\ UNCHANGED <<callVars, upload_info, chunks, parts, task, pending, shuffled, retryVars, splitVars, downloadVars, headerVars, entryVars, etagVars, setupVars, progressVars>>

head ==
    /\ pc = "start" /\ op = "head"
    /\ CallOp("head", "GET", VERCEL_BLOB_API_BASE_URL \o "/?url=" \o BlobUrl, <<>>, FALSE)
    /\ UNCHANGED <<callVars, upload_info, chunks, parts, task, pending, shuffled, retryVars, splitVars, downloadVars, headerVars, entryVars, etagVars, setupVars, progressVars>>

\* a type check that takes every list
ValidDeleteUrlAnyList(u) == u.type = "str" \/ u.type = "list"

\* type(url) == type("") or (type(url) == type([]) and all(isinstance(u, str) for u in url))
ValidDeleteUrl(u) ==
    \/ u.type = "str"
    \/ (u.type = "list" /\ \A i \in DOMAIN u.items : u.items[i].isStr)

\* {"urls": [url] if isinstance(url, str) else url}
DeleteJson(u) ==
    IF u.type = "str" THEN <<u.val>> ELSE [i \in DOMAIN u.items |-> u.items[i].val]

\* delete: the headers (and the token) come before the check of the argument
delete ==
    /\ pc = "start" /\ op = "delete"
    /\ LET t == get_auth_token(options, envToken) IN
       IF t.kind = "raise"
       THEN /\ result' = Raise(t.error)
            /\ pc' = "done"
            /\ UNCHANGED <<req, netVars>>
       ELSE IF ValidDeleteUrl(delete_url)
       THEN /\ Issue(Wire("delete", "POST", VERCEL_BLOB_API_BASE_URL \o "/delete", t.token,
                          <<>>, FALSE, DeleteJson(delete_url), 0, NoBody))
            /\ req' = NewRequest
            /\ pc' = "request"
            /\ UNCHANGED result
       ELSE /\ result' = Raise("BlobConfigError")
            /\ pc' = "done"
            /\ UNCHANGED <<req, netVars>>
    /\ UNCHANGED <<callVars, upload_info, chunks, parts, task, pending, shuffled, retryVars, splitVars, downloadVars, headerVars, entryVars, etagVars, setupVars, progressVars>>

copy ==
    /\ pc = "start" /\ op = "copy"
    /\ CallOp("copy", "PUT", VERCEL_BLOB_API_BASE_URL \o "/?pathname=" \o quote(path), <<>>, FALSE)
    /\ UNCHANGED <<callVars, upload_info, chunks, parts, task, pending, shuffled, retryVars, splitVars, downloadVars, headerVars, entryVars, etagVars, setupVars, progressVars>>

\* put without the multipart flag: the regular upload
put_single ==
    /\ pc = "start" /\ op = "put" /\ ~multipart
    /\ CallOp("put", "PUT", VERCEL_BLOB_API_BASE_URL \o "/?pathname=" \o path, data, TRUE)
    /\ UNCHANGED <<callVars, upload_info, chunks, parts, task, pending, shuffled, retryVars, splitVars, downloadVars, headerVars, entryVars, etagVars, setupVars, progressVars>>

\* kind and branch of the request the calling thread is waiting for
CurrentKind ==
    IF pc = "create" THEN "create" ELSE IF pc = "complete" THEN "complete" ELSE op
CurrentMode ==
    IF pc = "request" /\ op = "put" THEN Mode(verbose, "PUT", TRUE)
    ELSE IF pc = "request" /\ op = "copy" THEN Mode(verbose, "PUT", FALSE)
    ELSE "plain"

\* one attempt of the request of the calling thread
Attempt ==
    /\ pc \in {"request", "create", "complete"}
    /\ ~req.done
    /\ \E o \in Outcomes(CurrentKind) : req' = request_factory(req, CurrentMode, o)
    /\ UNCHANGED <<callVars, pc, upload_info, chunks, parts, task, pending, shuffled, result,
                   netVars, retryVars, splitVars, downloadVars, headerVars, entryVars, etagVars, setupVars, progressVars>>

\* return _response_handler(resp) of list, head, delete, copy and single-shot put
OpReturn ==
    /\ pc = "request"
    /\ req.done
    /\ result' = response_handler(req.resp)
    /\ pc' = "done"
    /\ UNCHANGED <<callVars, req, upload_info, chunks, parts, task, pending, shuffled,
                   netVars, retryVars, splitVars, downloadVars, headerVars, entryVars, etagVars, setupVars, progressVars>>

\* ------------------------------------------------------- multipart put
MpuUrl == VERCEL_BLOB_API_BASE_URL \o "/mpu?pathname=" \o path

\* a check that looks for the uploadId only
InvalidUploadInfoIdOnly(info) == info.uploadId = NoVal

\* 'uploadId' not in upload_info or 'key' not in upload_info
InvalidUploadInfo(info) == info.uploadId = NoVal \/ info.key = NoVal

\* put with the multipart flag, up to the create request of
\* _create_multipart_upload
put_multipart ==
    /\ pc = "start" /\ op = "put" /\ multipart
    /\ LET t == get_auth_token(options, envToken) IN
       IF t.kind = "raise"
       THEN /\ result' = Raise(t.error)
            /\ pc' = "done"
            /\ UNCHANGED <<req, netVars>>
       ELSE /\ Issue(Wire("create", "POST", MpuUrl, t.token, <<>>, FALSE, <<>>, 0, NoBody))
            /\ req' = NewRequest
            /\ pc' = "create"
            /\ UNCHANGED result
    /\ UNCHANGED <<callVars, upload_info, chunks, parts, task, pending, shuffled, retryVars, splitVars, downloadVars, headerVars, entryVars, etagVars, setupVars, progressVars>>

\* the create call is over: _create_multipart_upload returns or raises, put
\* checks uploadId and key, prepares the chunks and the parts list
create_return ==
    /\ pc = "create"
    /\ req.done
    /\ LET h == response_handler(req.resp)
           n == total_parts(Len(data), MULTIPART_CHUNK_SIZE)
       IN IF h.kind = "raise"
          THEN /\ result' = Raise("BlobRequestError")
               /\ pc' = "done"
               /\ UNCHANGED <<upload_info, chunks, parts, task>>
          ELSE IF InvalidUploadInfo(h.value)
          THEN /\ result' = Raise("BlobRequestError")
               /\ pc' = "done"
               /\ UNCHANGED <<upload_info, chunks, parts, task>>
          ELSE /\ upload_info' = h.value
               /\ chunks' = PrepareChunks(data, MULTIPART_CHUNK_SIZE)
               /\ parts' = [i \in 1..n |-> NoPart]
               /\ task' = [i \in 1..n |-> NoTask]
               /\ pc' = "submit"
               /\ UNCHANGED result
    /\ UNCHANGED <<callVars, req, pending, shuffled, netVars, retryVars, splitVars, downloadVars, headerVars, entryVars, etagVars, setupVars, progressVars>>

\* executor.submit(upload_part_with_progress, chunk_info) for the next chunk;
\* with no chunk the comprehension submits nothing and as_completed follows
submit ==
    /\ pc = "submit"
    /\ IF chunks = <<>>
       THEN /\ pc' = "collect"
            /\ UNCHANGED task
       ELSE LET n == CHOOSE i \in DOMAIN task :
                        task[i].st = "unsubmitted"
                            /\ \A j \in 1..(i - 1) : task[j].st # "unsubmitted"
            IN /\ task' = [task EXCEPT ![n].st = "queued"]
               /\ pc' = IF n = Len(chunks) THEN "collect" ELSE "submit"
    /\ UNCHANGED <<callVars, req, upload_info, chunks, parts, pending, shuffled, result,
                   netVars, retryVars, splitVars, downloadVars, headerVars, entryVars, etagVars, setupVars, progressVars>>

\* a free worker takes the oldest work item and calls _upload_part, which
\* hands the part to the issuer
start_part(n) ==
    /\ task[n].st = "queued"
    /\ \A j \in 1..(n - 1) : task[j].st # "queued"
    /\ WorkerFree(Cardinality(InFlight), max_concurrent_uploads(options))
    /\ LET t == get_auth_token(options, envToken) IN
       IF t.kind = "raise"
       THEN /\ task' = [task EXCEPT ![n].st = "failed", ![n].error = t.error]
            /\ UNCHANGED netVars
       ELSE /\ task' = [task EXCEPT ![n].st = "running"]
            /\ Issue(Wire("upload", "POST", MpuUrl, t.token,
                          SentBody(Mode(FALSE, "POST", TRUE), chunks[n].bytes), TRUE, <<>>,
                          chunks[n].partNumber, upload_info))
    /\ UNCHANGED <<callVars, pc, req, upload_info, chunks, parts, pending, shuffled, result,
                   retryVars, splitVars, downloadVars, headerVars, entryVars, etagVars, setupVars, progressVars>>

\* int(time.time()) as the parts of the put of Spec read it
SpecClock == 1700000000

\* one attempt of the request of a part; the attempt that ends the request
\* also ends _upload_part and resolves the future
part_attempt(n) ==
    /\ task[n].st = "running"
    /\ \E o \in Outcomes("upload") :
         LET r == request_factory([attempt |-> task[n].attempt, done |-> FALSE, resp |-> NoResponse],
                                  Mode(FALSE, "POST", TRUE), o)
             u == upload_part(r, chunks[n].partNumber, SpecClock)
         IN IF r.done
            THEN task' = [task EXCEPT ![n].st = u.st, ![n].attempt = 0,
                                      ![n].info = u.info, ![n].error = u.error]
            ELSE task' = [task EXCEPT ![n].attempt = r.attempt]
    /\ UNCHANGED <<callVars, pc, req, upload_info, chunks, parts, pending, shuffled, result,
                   netVars, retryVars, splitVars, downloadVars, headerVars, entryVars, etagVars, setupVars, progressVars>>

\* an except clause that goes on with the next future
PcAfterPartErrorSwallowed == "collect"

\* the except clause of the as_completed loop re-raises: the loop is left
\* and the with-block shuts the executor down
PcAfterPartError == "shutdown"

\* a loop that ends after the first future
AllCollectedAfterFirst == task = <<>> \/ \E n \in DOMAIN task : task[n].collected

\* the as_completed loop ends when it has yielded every future
AllCollected == \A n \in DOMAIN task : task[n].collected

\* as_completed yields a resolved future: its descriptor goes to its slot,
\* its exception is re-raised and leaves the loop
collect(n) ==
    /\ pc = "collect"
    /\ task[n].st \in {"ok", "failed"}
    /\ ~task[n].collected
    /\ task' = [task EXCEPT ![n].collected = TRUE]
    /\ shuffled' = (shuffled \/ \E m \in DOMAIN task : m > n /\ task[m].collected)
    /\ IF task[n].st = "ok"
       THEN /\ parts' = StorePart(parts, task[n].info.partNumber - 1, task[n].info)
            /\ UNCHANGED <<pc, pending>>
       ELSE /\ pending' = task[n].error
            /\ pc' = PcAfterPartError
            /\ UNCHANGED parts
    /\ UNCHANGED <<callVars, req, upload_info, chunks, result, netVars, retryVars, splitVars, downloadVars, headerVars, entryVars, etagVars, setupVars, progressVars>>

\* an executor shut down with wait=False
ExecutorDrainedNoWait == TRUE

\* an exit of the with-block that waits until every part has succeeded
ExecutorDrainedAllOk == TasksIn({"ok"}) = DOMAIN task

\* ThreadPoolExecutor.__exit__ is shutdown(wait=True): it returns when the
\* workers have run every work item of the queue; no future is cancelled
ExecutorDrained == Resolved = DOMAIN task

\* the with-block is left by an exception: the executor waits for every
\* work item before put raises
shutdown ==
    /\ pc = "shutdown"
    /\ ExecutorDrained
    /\ result' = Raise(pending)
    /\ pc' = "done"
    /\ UNCHANGED <<callVars, req, upload_info, chunks, parts, task, pending, shuffled,
                   netVars, retryVars, splitVars, downloadVars, headerVars, entryVars, etagVars, setupVars, progressVars>>

\* every future was collected: _complete_multipart_upload formats the parts
\* and hands the complete request to the issuer
complete_multipart_upload ==
    /\ pc = "collect"
    /\ AllCollected
    /\ LET t == get_auth_token(options, envToken) IN
       IF t.kind = "raise"
       THEN /\ result' = Raise(t.error)
            /\ pc' = "done"
            /\ UNCHANGED <<req, netVars>>
       ELSE /\ Issue(Wire("complete", "POST", MpuUrl, t.token, <<>>, FALSE,
                          formatted_parts(parts), 0, upload_info))
            /\ req' = NewRequest
            /\ pc' = "complete"
            /\ UNCHANGED result
    /\ UNCHANGED <<callVars, upload_info, chunks, parts, task, pending, shuffled, retryVars, splitVars, downloadVars, headerVars, entryVars, etagVars, setupVars, progressVars>>

\* return _complete_multipart_upload(...)
complete_return ==
    /\ pc = "complete"
    /\ req.done
    /\ result' = response_handler(req.resp)
    /\ pc' = "done"
    /\ UNCHANGED <<callVars, req, upload_info, chunks, parts, task, pending, shuffled,
                   netVars, retryVars, splitVars, downloadVars, headerVars, entryVars, etagVars, setupVars, progressVars>>

Next ==
    \/ list
    \/ head
    \/ delete
    \/ copy
    \/ put_single
    \/ put_multipart
    \/ Attempt
    \/ OpReturn
    \/ create_return
    \/ submit
    \/ \E n \in DOMAIN task : start_part(n)
    \/ \E n \in DOMAIN task : part_attempt(n)
    \/ \E n \in DOMAIN task : collect(n)
    \/ shutdown
    \/ complete_multipart_upload
    \/ complete_return

Spec == Init /\ [][Next]_vars

\* the threads keep running and every HTTP attempt ends: some step is taken
\* as long as one is possible
\* payloads of no chunk, of one, two and three chunks, the last one full or not
FairSizes == {0, 1, MULTIPART_CHUNK_SIZE, MULTIPART_CHUNK_SIZE + 1, MaxLen}
FairInit == Init /\ envToken = NoVal /\ Len(data) \in FairSizes
FairSpec == FairInit /\ [][Next]_vars /\ WF_vars(Next)

\* ------------------------------------------------------- RetrySpec
\* the call of Spec at rest
PutIdle ==
    /\ op = "list"
    /\ path = "dir/big.bin"
    /\ data = <<>>
    /\ multipart = FALSE
    /\ verbose = FALSE
    /\ options = [token |-> NoVal, maxConcurrentUploads |-> NoConcurrencyOption]
    /\ envToken = NoVal
    /\ delete_url = StrArg(BlobUrl)
    /\ pc = "idle"
    /\ req = NewRequest
    /\ upload_info = NoBody
    /\ chunks = <<>>
    /\ parts = <<>>
    /\ task = <<>>
    /\ pending = NoVal
    /\ shuffled = FALSE
    /\ result = NoResult
    /\ issued = {}
    /\ calls = [k \in Kinds |-> 0]

Modes == {"plain", "upload", "download"}

\* the ways one attempt can end in a branch of _request_factory: only the
\* download branch reads the body as a stream
RetryOutcomes(mode) ==
    {Exc} \cup {Response(s, ok, IF ok THEN (IF s = 200 THEN BlobBody ELSE ErrorBody) ELSE NoBody,
                         NoVal, st) :
                    s \in Statuses, ok \in BOOLEAN,
                    st \in (IF mode = "download" THEN {"ok", "exc"} ELSE {"ok"})}

\* backoff_factor, in tenths of a second
BACKOFF_FACTOR == 5

\* does the attempt raise a RequestException inside the try block: the
\* request itself, or the stream of a body the download branch reads
RaisesRequestException(mode, o) ==
    \/ o.exc
    \/ (mode = "download" /\ o.status \notin GatewayStatuses /\ o.stream = "exc")

\* time.sleep(backoff_factor * attempt) stands in the except clause
Slept(mode, o, attempt) ==
    IF RaisesRequestException(mode, o) THEN BACKOFF_FACTOR * attempt ELSE 0

\* what the log keeps of an attempt
Logged(mode, o, attempt) ==
    [exc |-> o.exc, status |-> o.status, stream |-> o.stream,
     slept |-> Slept(mode, o, attempt)]

RetryInit ==
    /\ PutIdle
    /\ SplitIdle
    /\ DownloadIdle
    /\ HeaderIdle
    /\ EntryIdle
    /\ EtagIdle
    /\ SetupIdle
    /\ ProgressIdle
    /\ rq = NewRequest
    /\ rmode \in Modes
    /\ rlog = <<>>
    /\ rres = NoResult

\* one attempt of the call
retry_attempt ==
    /\ ~rq.done
    /\ \E o \in RetryOutcomes(rmode) :
         /\ rq' = request_factory(rq, rmode, o)
         /\ rlog' = Append(rlog, Logged(rmode, o, rq.attempt + 1))
    /\ UNCHANGED <<rmode, rres, putVars, splitVars, downloadVars, headerVars, entryVars, etagVars, setupVars, progressVars>>

\* the caller passes what _request_factory returned to _response_handler
retry_handle ==
    /\ rq.done
    /\ rres.kind = "none"
    /\ rres' = response_handler(rq.resp)
    /\ UNCHANGED <<rq, rmode, rlog, putVars, splitVars, downloadVars, headerVars, entryVars, etagVars, setupVars, progressVars>>

RetryNext == retry_attempt \/ retry_handle

RetrySpec == RetryInit /\ [][RetryNext]_vars

\* ------------------------------------------------------- SplitSpec
Bytes == {0, 1}

RECURSIVE SeqsUpTo(_, _)
SeqsUpTo(S, n) ==
    IF n = 0 THEN {<<>>}
    ELSE LET shorter == SeqsUpTo(S, n - 1)
         IN shorter \cup {Append(q, b) : q \in {t \in shorter : Len(t) = n - 1}, b \in S}

SplitInit ==
    /\ PutIdle
    /\ RetryIdle
    /\ DownloadIdle
    /\ HeaderIdle
    /\ EntryIdle
    /\ EtagIdle
    /\ SetupIdle
    /\ ProgressIdle
    /\ sdata \in SeqsUpTo(Bytes, MaxSplitLen)
    /\ ssize \in 1..MaxSplitChunk
    /\ schunks = <<>>
    /\ spc = "start"

\* the chunk preparation of put
split ==
    /\ spc = "start"
    /\ schunks' = PrepareChunks(sdata, ssize)
    /\ spc' = "done"
    /\ UNCHANGED <<sdata, ssize, putVars, retryVars, downloadVars, headerVars, entryVars, etagVars, setupVars, progressVars>>

SplitNext == split

SplitSpec == SplitInit /\ [][SplitNext]_vars

\* ------------------------------------------------------- DownloadSpec
\* download_file.  Directories are named by their path below the working
\* directory of the script, with the trailing "/".
RECURSIVE lstrip(_)
lstrip(s) ==
    IF Len(s) > 0 /\ SubSeq(s, 1, 1) = "/" THEN lstrip(SubSeq(s, 2, Len(s))) ELSE s

endswith(s, c) == Len(s) > 0 /\ SubSeq(s, Len(s), Len(s)) = c

\* url.split('/')[-1]
RECURSIVE LastSegment(_)
LastSegment(s) ==
    IF Len(s) = 0 \/ endswith(s, "/") THEN ""
    ELSE LastSegment(SubSeq(s, 1, Len(s) - 1)) \o SubSeq(s, Len(s), Len(s))

\* os.path.exists(path_to_save) for a path_to_save that is not the working
\* directory itself
exists(sanitized_path, ds) == sanitized_path \in ds

\* the target of open(): the working directory always exists
CanOpen(sanitized_path, ds) == sanitized_path = "" \/ exists(sanitized_path, ds)

\* the inner handler: except FileNotFoundError -> raise BlobFileError
InnerExcept(e) == IF e = "FileNotFoundError" THEN "BlobFileError" ELSE e

\* the outer handler: except Exception -> raise BlobRequestError; every
\* exception of the body is an Exception, BlobFileError included
OuterExcept(e) == "BlobRequestError"

\* the request of download_file: no headers argument is passed
DownloadWire(url) ==
    [kind |-> "download", method |-> "GET", url |-> url \o "?download=1",
     authorization |-> NoVal, data |-> <<>>, hasData |-> FALSE, json |-> <<>>,
     partNumber |-> 0, uploadId |-> NoVal, key |-> NoVal]

DownloadPaths == {"", "/", "out/", "/out/", "out"}
DownloadStatuses == {200, 404, 503}

\* the ways one attempt of the download can end
DownloadOutcomes(mode) ==
    {Exc} \cup {Download(st, Payload(n), sm) :
                    st \in DownloadStatuses, n \in 0..MaxContent,
                    sm \in (IF mode = "download" THEN {"ok", "exc"} ELSE {"ok"})}

DownloadInit ==
    /\ PutIdle
    /\ RetryIdle
    /\ SplitIdle
    /\ HeaderIdle
    /\ EntryIdle
    /\ EtagIdle
    /\ SetupIdle
    /\ ProgressIdle
    /\ dpath \in DownloadPaths
    /\ dverbose \in BOOLEAN
    /\ doptions \in [token : {NoVal, "tok-opt"}]
    /\ denvToken \in {NoVal, "tok-env"}
    /\ dirs \in SUBSET {"out/"}
    /\ dpc = "start"
    /\ drq = NewRequest
    /\ dissued = {}
    /\ dfile = NoFile
    /\ dres = NoOutcome

\* the asserts on the path, then the call of _request_factory
download_file ==
    /\ dpc = "start"
    /\ LET sanitized_path == lstrip(dpath) IN
       IF sanitized_path # "" /\ ~endswith(dpath, "/")
       THEN /\ dres' = RaiseFrom("AssertionError")
            /\ dpc' = "done"
            /\ UNCHANGED dissued
       ELSE IF sanitized_path # "" /\ ~exists(sanitized_path, dirs)
       THEN /\ dres' = RaiseFrom("AssertionError")
            /\ dpc' = "done"
            /\ UNCHANGED dissued
       ELSE /\ dissued' = dissued \cup {DownloadWire(BlobUrl)}
            /\ dpc' = "request"
            /\ UNCHANGED dres
    /\ UNCHANGED <<dpath, dverbose, doptions, denvToken, dirs, drq, dfile,
                   putVars, retryVars, splitVars, headerVars, entryVars, etagVars, setupVars, progressVars>>

\* one attempt of the GET
download_attempt ==
    /\ dpc = "request"
    /\ ~drq.done
    /\ \E o \in DownloadOutcomes(Mode(dverbose, "GET", FALSE)) :
         drq' = request_factory(drq, Mode(dverbose, "GET", FALSE), o)
    /\ UNCHANGED <<dpath, dverbose, doptions, denvToken, dirs, dpc, dissued, dfile, dres,
                   putVars, retryVars, splitVars, headerVars, entryVars, etagVars, setupVars, progressVars>>

\* another process removes the directory while the request is under way
rmdir ==
    /\ dpc = "request"
    /\ dirs # {}
    /\ dirs' = {}
    /\ UNCHANGED <<dpath, dverbose, doptions, denvToken, dpc, drq, dissued, dfile, dres,
                   putVars, retryVars, splitVars, headerVars, entryVars, etagVars, setupVars, progressVars>>

\* .content of what _request_factory returned, open() and write(), under the
\* two handlers; the function ends without a return statement
download_write ==
    /\ dpc = "request"
    /\ drq.done
    /\ LET sanitized_path == lstrip(dpath) IN
       IF drq.resp.isNone
       THEN /\ dres' = RaiseFrom(OuterExcept("AttributeError"))
            /\ UNCHANGED dfile
       ELSE IF ~CanOpen(sanitized_path, dirs)
       THEN /\ dres' = RaiseFrom(OuterExcept(InnerExcept("FileNotFoundError")))
            /\ UNCHANGED dfile
       ELSE /\ dfile' = [written |-> TRUE, dir |-> sanitized_path,
                         name |-> LastSegment(BlobUrl), content |-> drq.resp.content]
            /\ dres' = ReturnNone
    /\ dpc' = "done"
    /\ UNCHANGED <<dpath, dverbose, doptions, denvToken, dirs, drq, dissued,
                   putVars, retryVars, splitVars, headerVars, entryVars, etagVars, setupVars, progressVars>>

DownloadNext ==
    \/ download_file
    \/ download_attempt
    \/ rmdir
    \/ download_write

DownloadSpec == DownloadInit /\ [][DownloadNext]_vars

\* ------------------------------------------------------- HeaderSpec
\* the headers put and copy build from one options dictionary
API_VERSION == "10"
DEFAULT_CACHE_AGE == "31536000"

\* a == b of Python: bool is an int, True == 1 and False == 0
Numeric(a) == IF a.val \in {"True", "1"} THEN "1" ELSE "0"
PyEq(a, b) ==
    IF a.type \in {"bool", "int"} /\ b.type \in {"bool", "int"}
    THEN Numeric(a) = Numeric(b)
    ELSE a = b

\* v in (c1, c2, ...)
PyIn(v, tuple) == \E c \in tuple : PyEq(v, c)

EndsWithStr(s, suf) ==
    Len(s) >= Len(suf) /\ SubSeq(s, Len(s) - Len(suf) + 1, Len(s)) = suf

guess_mime_type(url) ==
    IF EndsWithStr(url, ".txt") THEN "text/plain" ELSE "application/octet-stream"

\* options.get('cacheControlMaxAge', _DEFAULT_CACHE_AGE)
CacheControlMaxAge(opts) ==
    IF opts.cacheControlMaxAge = NoVal THEN DEFAULT_CACHE_AGE ELSE opts.cacheControlMaxAge

Headers(token, content_type, cache_age, suffix, overwrite) ==
    [kind |-> "headers", error |-> NoVal, access |-> "public",
     authorization |-> "Bearer " \o token, xApiVersion |-> API_VERSION,
     xContentType |-> content_type, xCacheControlMaxAge |-> cache_age,
     xAddRandomSuffix |-> suffix, xAllowOverwrite |-> overwrite, xMpuAction |-> NoVal]

HeadersRaise(e) == [NoHeaders EXCEPT !.kind = "raise", !.error = e]

\* headers of put that know the strings "false" and "true" only
PutHeadersStringsOnly(opts, env, to_path) ==
    LET t == get_auth_token(opts, env) IN
    IF t.kind = "raise" THEN HeadersRaise(t.error)
    ELSE Headers(t.token, guess_mime_type(to_path), CacheControlMaxAge(opts),
                 IF opts.addRandomSuffix = PyStr("false") THEN "0" ELSE NoVal,
                 IF opts.allowOverwrite = PyStr("true") THEN "1" ELSE NoVal)

\* the headers of put
PutHeaders(opts, env, to_path) ==
    LET t == get_auth_token(opts, env) IN
    IF t.kind = "raise" THEN HeadersRaise(t.error)
    ELSE Headers(t.token, guess_mime_type(to_path), CacheControlMaxAge(opts),
                 IF PyIn(opts.addRandomSuffix, {PyStr("false"), PyBool("False"), PyStr("0")})
                 THEN "0" ELSE NoVal,
                 IF PyIn(opts.allowOverwrite, {PyStr("true"), PyBool("True"), PyStr("1")})
                 THEN "1" ELSE NoVal)

\* headers of copy that leave the cacheControlMaxAge option unread
CopyHeadersDefaultCache(opts, env, blob_url) ==
    LET t == get_auth_token(opts, env) IN
    IF t.kind = "raise" THEN HeadersRaise(t.error)
    ELSE Headers(t.token, guess_mime_type(blob_url), DEFAULT_CACHE_AGE,
                 IF opts.addRandomSuffix # PyNone THEN "1" ELSE NoVal,
                 NoVal)

\* the headers of copy
CopyHeaders(opts, env, blob_url) ==
    LET t == get_auth_token(opts, env) IN
    IF t.kind = "raise" THEN HeadersRaise(t.error)
    ELSE Headers(t.token, guess_mime_type(blob_url), CacheControlMaxAge(opts),
                 IF opts.addRandomSuffix # PyNone THEN "1" ELSE NoVal,
                 NoVal)

FlagValues ==
    {PyNone, PyStr("true"), PyStr("false"), PyStr("0"), PyStr("1"),
     PyBool("True"), PyBool("False"), PyInt("0"), PyInt("1")}

HeaderInit ==
    /\ PutIdle
    /\ RetryIdle
    /\ SplitIdle
    /\ DownloadIdle
    /\ EntryIdle
    /\ EtagIdle
    /\ SetupIdle
    /\ ProgressIdle
    /\ hoptions \in [token : {NoVal, "tok-opt"},
                     cacheControlMaxAge : {NoVal, "60"},
                     addRandomSuffix : FlagValues,
                     allowOverwrite : FlagValues]
    /\ hput = NoHeaders
    /\ hcopy = NoHeaders
    /\ hcreate = NoHeaders
    /\ hpc = "start"

\* put(path, data, hoptions) up to its headers
put_headers ==
    /\ hpc = "start"
    /\ hput = NoHeaders
    /\ hput' = PutHeaders(hoptions, envToken, path)
    /\ UNCHANGED <<hoptions, hcopy, hcreate, hpc, putVars, retryVars, splitVars, downloadVars, entryVars, etagVars, setupVars, progressVars>>

\* copy(blob_url, path, hoptions) up to its headers
copy_headers ==
    /\ hpc = "start"
    /\ hcopy = NoHeaders
    /\ hcopy' = CopyHeaders(hoptions, envToken, BlobUrl)
    /\ UNCHANGED <<hoptions, hput, hcreate, hpc, putVars, retryVars, splitVars, downloadVars, entryVars, etagVars, setupVars, progressVars>>

\* mpu_headers = headers.copy(); mpu_headers['x-mpu-action'] = 'create'
MpuCreateHeaders(headers) == [headers EXCEPT !.xMpuAction = "create"]

\* put with the multipart flag hands its headers to _create_multipart_upload
create_headers ==
    /\ hpc = "start"
    /\ hput.kind = "headers"
    /\ hcreate = NoHeaders
    /\ hcreate' = MpuCreateHeaders(hput)
    /\ UNCHANGED <<hoptions, hput, hcopy, hpc, putVars, retryVars, splitVars, downloadVars, entryVars, etagVars, setupVars, progressVars>>

HeaderNext == put_headers \/ copy_headers \/ create_headers

HeaderSpec == HeaderInit /\ [][HeaderNext]_vars

\* ------------------------------------------------------- EntrySpec
\* a call of put from its entry to its requests: the binding of the
\* arguments, the checks of their types, and the timeout of each request
DEFAULT_TIMEOUT == 10
DEFAULT_PART_TIMEOUT == 30

\* keyword arguments the signature of the function has
Keywords(via) ==
    IF via = "package" THEN {} ELSE {"timeout", "verbose", "multipart"}

\* keyword arguments the caller gives
Given(args) ==
    {k \in {"multipart", "verbose"} : args[k] # NoVal}
        \cup (IF args.timeout # 0 THEN {"timeout"} ELSE {})

\* the parameters of blob_store.put after binding
Timeout(args) == IF args.timeout = 0 THEN DEFAULT_TIMEOUT ELSE args.timeout
Multipart(args) == args.multipart = "True"

\* options.get('timeout', default)
OptionsTimeout(args, default) == IF args.optTimeout = 0 THEN default ELSE args.optTimeout

\* the three assert statements of put, which -O compiles away, and after
\* them the first uses of the arguments: options.get and guess_mime_type(path)
TypeChecks(args, optimize) ==
    IF ~optimize
    THEN IF args.path # "str" \/ args.data # "bytes" \/ args.options # "dict"
         THEN "AssertionError" ELSE NoVal
    ELSE IF args.options # "dict" THEN "AttributeError"
         ELSE IF args.path # "str" THEN "TypeError"
         ELSE NoVal

\* the requests of a put and the timeout each is made with
PutRequests(args) ==
    IF Multipart(args)
    THEN {[kind |-> "create", timeout |-> OptionsTimeout(args, DEFAULT_TIMEOUT)],
          [kind |-> "upload", timeout |-> OptionsTimeout(args, DEFAULT_PART_TIMEOUT)],
          [kind |-> "complete", timeout |-> OptionsTimeout(args, DEFAULT_TIMEOUT)]}
    ELSE {[kind |-> "put", timeout |-> Timeout(args)]}

EntryInit ==
    /\ PutIdle
    /\ RetryIdle
    /\ SplitIdle
    /\ DownloadIdle
    /\ HeaderIdle
    /\ EtagIdle
    /\ SetupIdle
    /\ ProgressIdle
    /\ cvia \in {"package", "blob_store"}
    /\ cargs \in [path : {"str", "int"}, data : {"bytes", "str"}, options : {"dict", "list"},
                  multipart : {NoVal, "True", "False"}, verbose : {NoVal, "True"},
                  timeout : {0, 5}, optTimeout : {0, 7}]
    /\ coptimize \in BOOLEAN
    /\ cpc = "start"
    /\ cres = NoVal
    /\ csent = {}

\* the call binds its arguments to the parameters of the function; the
\* package's put(path, data, options) hands these three to blob_store.put
entry_call ==
    /\ cpc = "start"
    /\ IF Given(cargs) \subseteq Keywords(cvia)
       THEN cpc' = "check" /\ UNCHANGED cres
       ELSE cpc' = "done" /\ cres' = "TypeError"
    /\ UNCHANGED <<cvia, cargs, coptimize, csent,
                   putVars, retryVars, splitVars, downloadVars, headerVars, etagVars, setupVars, progressVars>>

\* blob_store.put up to its headers
entry_check ==
    /\ cpc = "check"
    /\ LET e == TypeChecks(cargs, coptimize) IN
       IF e = NoVal
       THEN cpc' = "send" /\ UNCHANGED cres
       ELSE cpc' = "done" /\ cres' = e
    /\ UNCHANGED <<cvia, cargs, coptimize, csent,
                   putVars, retryVars, splitVars, downloadVars, headerVars, etagVars, setupVars, progressVars>>

\* the requests of the call
entry_send ==
    /\ cpc = "send"
    /\ csent' = PutRequests(cargs)
    /\ cpc' = "done"
    /\ UNCHANGED <<cvia, cargs, coptimize, cres,
                   putVars, retryVars, splitVars, downloadVars, headerVars, etagVars, setupVars, progressVars>>

EntryNext == entry_call \/ entry_check \/ entry_send

EntrySpec == EntryInit /\ [][EntryNext]_vars

\* ------------------------------------------------------- SetupSpec
\* a multipart put from its call to the creation of its executor
MAXIMUM_PATHNAME_LENGTH == 950
DISALLOWED_PATHNAME_CHARACTERS == {"//"}

RECURSIVE Repeat(_, _)
Repeat(c, n) ==
    IF n = 0 THEN ""
    ELSE IF n % 2 = 0 THEN LET h == Repeat(c, n \div 2) IN h \o h
    ELSE c \o Repeat(c, n - 1)

\* sub in s
Contains(s, sub) ==
    \E i \in 1..(Len(s) - Len(sub) + 1) : SubSeq(s, i, i + Len(sub) - 1) = sub

\* a validation that lets "//" through
validate_pathname_any_character(pathname) ==
    IF Len(pathname) = 0 THEN "BlobRequestError"
    ELSE IF Len(pathname) > MAXIMUM_PATHNAME_LENGTH THEN "BlobRequestError"
    ELSE NoVal

\* the exception validate_pathname raises, NoVal when it returns
validate_pathname(pathname) ==
    IF Len(pathname) = 0 THEN "BlobRequestError"
    ELSE IF Len(pathname) > MAXIMUM_PATHNAME_LENGTH THEN "BlobRequestError"
    ELSE IF \E c \in DISALLOWED_PATHNAME_CHARACTERS : Contains(pathname, c)
         THEN "BlobRequestError"
    ELSE NoVal

SetupPaths ==
    {"", "a/b.txt", "a//b.txt", "//", Repeat("a", MAXIMUM_PATHNAME_LENGTH),
     Repeat("a", MAXIMUM_PATHNAME_LENGTH + 1)}

\* values of the maxConcurrentUploads option: val is the number the value
\* stands for (True is 1, "3" holds 3, 2.0 is 2)
SetupConcurrency ==
    {NoConcurrencyOption}
        \cup {[type |-> "int", val |-> v] : v \in (0 - 1)..(MaxWorkers + 1)}
        \cup {[type |-> "bool", val |-> v] : v \in {0, 1}}
        \cup {[type |-> "str", val |-> 3], [type |-> "float", val |-> 2],
              [type |-> "NoneType", val |-> 0]}

SetupInit ==
    /\ PutIdle
    /\ RetryIdle
    /\ SplitIdle
    /\ DownloadIdle
    /\ HeaderIdle
    /\ EntryIdle
    /\ EtagIdle
    /\ ProgressIdle
    /\ mpath \in SetupPaths
    /\ moptions \in [token : {NoVal, "tok-opt"}, maxConcurrentUploads : SetupConcurrency]
    /\ menvToken \in {NoVal, "", "tok-env"}
    /\ mworkers = 0
    /\ mpool = 0
    /\ msent = {}
    /\ mres = NoVal
    /\ mpc = "start"

\* put, lines 422 to 425: the worker count
setup_workers ==
    /\ mpc = "start"
    /\ mworkers' = max_concurrent_uploads(moptions)
    /\ mpc' = "headers"
    /\ UNCHANGED <<mpath, moptions, menvToken, mpool, msent, mres,
                   putVars, retryVars, splitVars, downloadVars, headerVars, entryVars,
                   etagVars, progressVars>>

\* the headers of put need the token
setup_headers ==
    /\ mpc = "headers"
    /\ LET t == get_auth_token(moptions, menvToken) IN
       IF t.kind = "raise"
       THEN mres' = t.error /\ mpc' = "done"
       ELSE mpc' = "create" /\ UNCHANGED mres
    /\ UNCHANGED <<mpath, moptions, menvToken, mworkers, mpool, msent,
                   putVars, retryVars, splitVars, downloadVars, headerVars, entryVars,
                   etagVars, progressVars>>

\* _create_multipart_upload validates the pathname, then makes its request
setup_create ==
    /\ mpc = "create"
    /\ LET e == validate_pathname(mpath) IN
       IF e # NoVal
       THEN mres' = e /\ mpc' = "done" /\ UNCHANGED msent
       ELSE msent' = msent \cup {"create"} /\ mpc' = "pool" /\ UNCHANGED mres
    /\ UNCHANGED <<mpath, moptions, menvToken, mworkers, mpool,
                   putVars, retryVars, splitVars, downloadVars, headerVars, entryVars,
                   etagVars, progressVars>>

\* ThreadPoolExecutor(max_workers=max_concurrent_uploads)
setup_pool ==
    /\ mpc = "pool"
    /\ mpool' = mworkers
    /\ mpc' = "done"
    /\ UNCHANGED <<mpath, moptions, menvToken, mworkers, msent, mres,
                   putVars, retryVars, splitVars, downloadVars, headerVars, entryVars,
                   etagVars, progressVars>>

SetupNext == setup_workers \/ setup_headers \/ setup_create \/ setup_pool

SetupSpec == SetupInit /\ [][SetupNext]_vars

\* ------------------------------------------------------- ProgressSpec
\* the with-block of a multipart put and its progress bar: the workers run
\* upload_part_with_progress, which calls pbar.update(len(chunk)) after
\* _upload_part has returned.  put holds no lock around the call and the bar
\* adds to its counter n without one, so the update of a worker is a read of
\* n followed by a write, and the workers interleave between the two.
ProgressChunks == PrepareChunks(gdata, MULTIPART_CHUNK_SIZE)

\* parts whose work item occupies a worker
ProgressBusy == {n \in DOMAIN gtask : gtask[n] \in {"running", "uploaded", "read"}}

ProgressInit ==
    /\ PutIdle
    /\ RetryIdle
    /\ SplitIdle
    /\ DownloadIdle
    /\ HeaderIdle
    /\ EntryIdle
    /\ EtagIdle
    /\ SetupIdle
    /\ gdata \in {Payload(n) : n \in 0..MaxLen}
    /\ gverbose \in BOOLEAN
    /\ gworkers \in 1..MaxWorkers
    /\ gtask = [n \in 1..total_parts(Len(gdata), MULTIPART_CHUNK_SIZE) |-> "queued"]
    /\ gseen = [n \in 1..total_parts(Len(gdata), MULTIPART_CHUNK_SIZE) |-> 0]
    /\ gbar = [total |-> IF gverbose THEN Len(gdata) ELSE 0, n |-> 0]
    /\ gupdates = <<>>
    /\ gres = NoVal
    /\ gpc = "upload"

\* a free worker takes the oldest work item
progress_start(n) ==
    /\ gtask[n] = "queued"
    /\ \A j \in 1..(n - 1) : gtask[j] # "queued"
    /\ WorkerFree(Cardinality(ProgressBusy), gworkers)
    /\ gtask' = [gtask EXCEPT ![n] = "running"]
    /\ UNCHANGED <<gdata, gverbose, gworkers, gseen, gbar, gupdates, gres, gpc,
                   putVars, retryVars, splitVars, downloadVars, headerVars, entryVars,
                   etagVars, setupVars>>

\* _upload_part returns the descriptor of the part or raises
upload_part_with_progress(n) ==
    /\ gtask[n] = "running"
    /\ \E ok \in BOOLEAN :
          gtask' = [gtask EXCEPT ![n] = IF ~ok THEN "failed"
                                        ELSE IF gverbose THEN "uploaded" ELSE "done"]
    /\ UNCHANGED <<gdata, gverbose, gworkers, gseen, gbar, gupdates, gres, gpc,
                   putVars, retryVars, splitVars, downloadVars, headerVars, entryVars,
                   etagVars, setupVars>>

\* pbar.update(len(chunk)): the worker reads the counter
pbar_update_read(n) ==
    /\ gtask[n] = "uploaded"
    /\ gseen' = [gseen EXCEPT ![n] = gbar.n]
    /\ gupdates' = Append(gupdates, [part |-> n, delta |-> Len(ProgressChunks[n].bytes)])
    /\ gtask' = [gtask EXCEPT ![n] = "read"]
    /\ UNCHANGED <<gdata, gverbose, gworkers, gbar, gres, gpc,
                   putVars, retryVars, splitVars, downloadVars, headerVars, entryVars,
                   etagVars, setupVars>>

\* pbar.update(len(chunk)): the worker writes the counter it read plus the delta
pbar_update_write(n) ==
    /\ gtask[n] = "read"
    /\ gbar' = [gbar EXCEPT !.n = gseen[n] + Len(ProgressChunks[n].bytes)]
    /\ gtask' = [gtask EXCEPT ![n] = "done"]
    /\ UNCHANGED <<gdata, gverbose, gworkers, gseen, gupdates, gres, gpc,
                   putVars, retryVars, splitVars, downloadVars, headerVars, entryVars,
                   etagVars, setupVars>>

\* the with-block ends when every work item has: by the exception of a failed
\* part, or normally, and then put closes the bar and goes on
progress_exit ==
    /\ gpc = "upload"
    /\ \A n \in DOMAIN gtask : gtask[n] \in {"done", "failed"}
    /\ gres' = IF \E n \in DOMAIN gtask : gtask[n] = "failed" THEN "raise" ELSE "return"
    /\ gpc' = "done"
    /\ UNCHANGED <<gdata, gverbose, gworkers, gtask, gseen, gbar, gupdates,
                   putVars, retryVars, splitVars, downloadVars, headerVars, entryVars,
                   etagVars, setupVars>>

ProgressNext ==
    \/ \E n \in DOMAIN gtask :
          \/ progress_start(n)
          \/ upload_part_with_progress(n)
          \/ pbar_update_read(n)
          \/ pbar_update_write(n)
    \/ progress_exit

ProgressSpec == ProgressInit /\ [][ProgressNext]_vars

\* ------------------------------------------------------- EtagSpec
\* _upload_part from the final response of its request to the descriptor it
\* returns, and the parts list the complete call makes of it
MaxEtagPart == 3
Clock == {1700000000, 1700000001}

\* 200 responses whose JSON body is a dict; "" is a header or a field that
\* is there and empty, NoVal one that is not there
EtagResponses ==
    {[isNone |-> FALSE, status |-> 200, jsonOk |-> TRUE,
      body |-> Body(NoVal, NoVal, NoVal, e, E), etagHdr |-> h, content |-> <<>>] :
        h \in {NoVal, "", "etag-h"}, e \in {NoVal, "", "etag-b"}, E \in {NoVal, "ETag-b"}}

\* responses that carry no JSON, and the call that got no response
FailedResponses ==
    {NoResponse} \cup
    {[isNone |-> FALSE, status |-> st, jsonOk |-> FALSE,
      body |-> NoBody, etagHdr |-> h, content |-> <<>>] :
        st \in {200, 500}, h \in {NoVal, "etag-h"}}

EtagInit ==
    /\ PutIdle
    /\ RetryIdle
    /\ SplitIdle
    /\ DownloadIdle
    /\ HeaderIdle
    /\ EntryIdle
    /\ SetupIdle
    /\ ProgressIdle
    /\ eresp \in EtagResponses \cup FailedResponses
    /\ epart \in 1..MaxEtagPart
    /\ enow \in Clock
    /\ edesc = NoPart
    /\ eparts = <<>>
    /\ epc = "start"

\* _upload_part after its request
etag_upload_part ==
    /\ epc = "start"
    /\ LET u == upload_part([attempt |-> 1, done |-> TRUE, resp |-> eresp], epart, enow) IN
         /\ edesc' = u.info
         /\ epc' = IF u.st = "ok" THEN "uploaded" ELSE "failed"
    /\ UNCHANGED <<eresp, epart, enow, eparts,
                   putVars, retryVars, splitVars, downloadVars, headerVars, entryVars, setupVars, progressVars>>

\* the parts list of the complete call of a put of this one part
etag_complete ==
    /\ epc = "uploaded"
    /\ eparts' = formatted_parts(<<edesc>>)
    /\ epc' = "done"
    /\ UNCHANGED <<eresp, epart, enow, edesc,
                   putVars, retryVars, splitVars, downloadVars, headerVars, entryVars, setupVars, progressVars>>

EtagNext == etag_upload_part \/ etag_complete

EtagSpec == EtagInit /\ [][EtagNext]_vars

\* ------------------------------------------------------- properties
\* the least n with n * c >= l
CeilDiv(l, c) == CHOOSE n \in 0..l : n * c >= l /\ (n = 0 \/ (n - 1) * c < l)

UploadsIssued == {w \in issued : w.kind = "upload"}

\* C1: the parts list submitted in the complete call of a multipart put has
\* exactly totalParts entries, whose partNumbers are 1..totalParts in
\* ascending order, whatever the order the part uploads finished in
C1_CompletePartsOrdered ==
    \A w \in issued : w.kind = "complete" =>
        /\ Len(w.json) = CeilDiv(Len(data), MULTIPART_CHUNK_SIZE)
        /\ \A i \in 1..Len(w.json) : w.json[i].partNumber = i

\* a complete call with three parts that were collected out of order
C1_Witness ==
    /\ shuffled
    /\ \E w \in issued : w.kind = "complete" /\ Len(w.json) = 3

\* C2: at no moment are more part uploads in flight than the effective
\* maxConcurrentUploads of the put
C2_BoundedInFlight ==
    Cardinality(InFlight) <= max_concurrent_uploads(options)

\* the pool is saturated and a part waits in the queue
C2_Witness ==
    /\ Cardinality(InFlight) = max_concurrent_uploads(options)
    /\ Cardinality(InFlight) >= 2
    /\ TasksIn({"queued"}) # {}

\* C3: once a part upload has failed, put returns no result, raises when it
\* ends, and issues no complete call nor any call other than create and upload
C3_PartFailureFailsPut ==
    TasksIn({"failed"}) # {} =>
        /\ result.kind # "return"
        /\ (pc = "done" => result.kind = "raise")
        /\ calls["complete"] = 0
        /\ \A w \in issued : w.kind \in {"create", "upload"}

\* put has raised after one part failed and another succeeded
C3_Witness ==
    /\ pc = "done"
    /\ result.kind = "raise"
    /\ TasksIn({"failed"}) # {}
    /\ TasksIn({"ok"}) # {}

\* C4: a part upload is started only after the create call has returned a
\* session, and the complete call is issued only after every one of the
\* totalParts part uploads has succeeded
C4_CreateThenPartsThenComplete ==
    /\ calls["upload"] > 0 =>
        /\ calls["create"] = 1
        /\ pc \notin {"start", "create"}
        /\ upload_info.uploadId # NoVal
        /\ upload_info.key # NoVal
    /\ calls["complete"] > 0 =>
        /\ Len(task) = CeilDiv(Len(data), MULTIPART_CHUNK_SIZE)
        /\ \A n \in DOMAIN task : task[n].st = "ok"

\* the complete call was issued after three part uploads
C4_Witness ==
    /\ calls["complete"] = 1
    /\ calls["upload"] = 3
    /\ pc = "complete"

\* C5: a successful multipart put of a non-empty payload has made one create
\* call, one part-upload call per part number 1..ceil(L / chunk size) with
\* the sizes of the split (5, 5 and 2 for 12), and one complete call, and
\* returns the parsed response of the complete call
C5_SuccessfulMultipartPut ==
    (op = "put" /\ multipart /\ pc = "done" /\ result.kind = "return" /\ Len(data) > 0) =>
        LET n == CeilDiv(Len(data), MULTIPART_CHUNK_SIZE) IN
        /\ calls = [k \in Kinds |-> IF k \in {"create", "complete"} THEN 1
                                     ELSE IF k = "upload" THEN n ELSE 0]
        /\ Cardinality(UploadsIssued) = n
        /\ \A i \in 1..n : \E w \in UploadsIssued :
              /\ w.partNumber = i
              /\ Len(w.data) = IF i < n THEN MULTIPART_CHUNK_SIZE
                               ELSE Len(data) - (n - 1) * MULTIPART_CHUNK_SIZE
        /\ (Len(data) = 12 =>
              {<<w.partNumber, Len(w.data)>> : w \in UploadsIssued} = {<<1, 5>>, <<2, 5>>, <<3, 2>>})
        /\ ~req.resp.isNone
        /\ req.resp.status = 200
        /\ result.value = req.resp.body

\* a multipart put of 12 MiB has returned
C5_Witness ==
    /\ op = "put" /\ multipart /\ pc = "done"
    /\ result.kind = "return"
    /\ Len(data) = 12

\* the chunks' bytes joined in the order of the sequence
RECURSIVE Concat(_)
Concat(cs) == IF cs = <<>> THEN <<>> ELSE Head(cs).bytes \o Concat(Tail(cs))

\* payload[lo : hi] of Python, for 0 <= lo <= hi <= len
Slice(d, lo, hi) == [k \in 1..(hi - lo) |-> d[lo + k]]

\* C6: a payload of length L > 0 is split into ceil(L / C) chunks numbered
\* 1..ceil(L / C); chunk i is payload[(i-1)*C : min(i*C, L)]; every chunk but
\* the last has length C, the last is not empty, and the chunks joined in
\* partNumber order are the payload
C6_SplitPartitionsPayload ==
    (spc = "done" /\ Len(sdata) > 0) =>
        LET n == CeilDiv(Len(sdata), ssize) IN
        /\ Len(schunks) = n
        /\ \A i \in 1..n :
              /\ schunks[i].partNumber = i
              /\ schunks[i].bytes = Slice(sdata, (i - 1) * ssize, Min(i * ssize, Len(sdata)))
        /\ \A i \in 1..(n - 1) : Len(schunks[i].bytes) = ssize
        /\ Len(schunks[n].bytes) >= 1
        /\ Concat(schunks) = sdata

\* a payload split into three chunks, the last one shorter
C6_Witness ==
    /\ spc = "done"
    /\ Len(sdata) = 5
    /\ ssize = 2
    /\ Len(schunks) = 3

\* an attempt of the log that ended in a gateway status or in an exception
Failed(e) == e.exc \/ e.status \in GatewayStatuses \/ e.stream = "exc"
Answered(e, s) == ~e.exc /\ e.status = s /\ e.stream = "ok"

\* C7: one call of the issuer makes at most 3 attempts; 503, 503, 200 gives
\* 3 attempts and the 200 response; three attempts that each end in
\* 502/503/504 or an exception give None and then BlobRequestError, and
\* the call does not end before the third of them
C7_AtMostThreeAttempts ==
    /\ rq.attempt <= 3
    /\ Len(rlog) = rq.attempt
    /\ (Len(rlog) = 3 /\ Answered(rlog[1], 503) /\ Answered(rlog[2], 503) /\ Answered(rlog[3], 200)) =>
          /\ rq.done
          /\ ~rq.resp.isNone
          /\ rq.resp.status = 200
    /\ (\A i \in 1..Len(rlog) : Failed(rlog[i])) =>
          /\ rq.done <=> Len(rlog) = 3
          /\ rq.resp.isNone
          /\ rres.kind # "return"
          /\ (rres.kind = "raise" => rres.error = "BlobRequestError")

\* 503, 503, 200 and the parsed body of the 200 response returned
C7_Witness ==
    /\ Len(rlog) = 3
    /\ Answered(rlog[1], 503) /\ Answered(rlog[2], 503) /\ Answered(rlog[3], 200)
    /\ rres.kind = "return"

\* C8: in each branch of the issuer an attempt is followed by another one
\* only if it ended in 502, 503, 504 or an exception; a response with any
\* other status ends the call and is what the call returns
C8_RetryOnlyGatewayOrException ==
    /\ \A i \in 1..(Len(rlog) - 1) : Failed(rlog[i])
    /\ (rlog # <<>> /\ ~Failed(rlog[Len(rlog)])) =>
          /\ rq.done
          /\ ~rq.resp.isNone
          /\ rq.resp.status = rlog[Len(rlog)].status

\* a 500 response returned by the download branch after one retry
C8_Witness ==
    /\ rmode = "download"
    /\ Len(rlog) = 2
    /\ Answered(rlog[1], 502)
    /\ Answered(rlog[2], 500)
    /\ rq.done

\* C9: put, list, head, delete and copy called with no token in the options
\* and BLOB_READ_WRITE_TOKEN unset or empty raise BlobConfigError and hand
\* no request to the issuer
C9_MissingTokenIsConfigError ==
    (pc # "idle" /\ options.token = NoVal /\ envToken \in {NoVal, ""}) =>
        /\ issued = {}
        /\ calls = [k \in Kinds |-> 0]
        /\ req.attempt = 0
        /\ pc \in {"start", "done"}
        /\ (pc = "done" => result = Raise("BlobConfigError"))

\* a multipart put has raised BlobConfigError with the variable set to ""
C9_Witness ==
    /\ op = "put" /\ multipart
    /\ options.token = NoVal
    /\ envToken = ""
    /\ pc = "done"
    /\ result = Raise("BlobConfigError")

\* C10: put without the multipart flag hands the issuer one request, a PUT
\* to /?pathname=<path> with the whole payload as its body, makes no create,
\* upload or complete call, and returns the parsed JSON of the response
C10_SingleShotPut ==
    (op = "put" /\ ~multipart) =>
        /\ \A w \in issued :
              /\ w.kind = "put"
              /\ w.method = "PUT"
              /\ w.url = VERCEL_BLOB_API_BASE_URL \o "/?pathname=" \o path
              /\ w.hasData
              /\ w.data = data
        /\ \A k \in Kinds \ {"put"} : calls[k] = 0
        /\ calls["put"] <= 1
        /\ (pc = "request" \/ (pc = "done" /\ result # Raise("BlobConfigError"))) => calls["put"] = 1
        /\ (pc = "done" /\ result.kind = "return") =>
              /\ req.resp.status = 200
              /\ req.resp.jsonOk
              /\ result.value = req.resp.body

\* a verbose single-shot put of a payload of several reads has returned
C10_Witness ==
    /\ op = "put" /\ ~multipart
    /\ verbose
    /\ Len(data) > ReadSize
    /\ pc = "done"
    /\ result.kind = "return"

\* C11: a put of a payload above 25MB goes through the create, upload and
\* complete calls and never through the single PUT
C11_LargePayloadIsMultipart ==
    (op = "put" /\ Len(data) > LARGE_FILE_SIZE) =>
        /\ calls["put"] = 0
        /\ (pc = "done" /\ result.kind = "return") =>
              (calls["create"] = 1 /\ calls["complete"] = 1)

\* C12: when the create call is answered 200 with a body that lacks uploadId
\* or lacks key, the multipart put raises BlobRequestError and makes no upload
\* call and no complete call
C12_InvalidCreateResponseAborts ==
    /\ (/\ op = "put" /\ multipart
        /\ calls["create"] = 1 /\ calls["complete"] = 0
        /\ req.done /\ ~req.resp.isNone
        /\ req.resp.status = 200 /\ req.resp.jsonOk
        /\ (req.resp.body.uploadId = NoVal \/ req.resp.body.key = NoVal)) =>
           /\ pc \in {"create", "done"}
           /\ (pc = "done" => result = Raise("BlobRequestError"))
           /\ upload_info = NoBody
           /\ task = <<>>
           /\ calls["upload"] = 0
    /\ (calls["upload"] > 0 \/ calls["complete"] > 0) =>
           (upload_info.uploadId # NoVal /\ upload_info.key # NoVal)

\* a create response with an uploadId and no key has ended the put
C12_Witness ==
    /\ op = "put" /\ multipart
    /\ pc = "done"
    /\ req.resp.status = 200 /\ req.resp.jsonOk
    /\ req.resp.body.uploadId # NoVal
    /\ req.resp.body.key = NoVal
    /\ result = Raise("BlobRequestError")
    /\ calls["create"] = 1
    /\ calls["upload"] = 0 /\ calls["complete"] = 0

\* C13 as stated: every upload call and the complete call of a multipart put
\* carry the uploadId and the key exactly as the create call returned them
C13_MpuCallsCarryReturnedKey ==
    \A w \in issued :
        w.kind \in {"upload", "complete"} =>
            (w.uploadId = upload_info.uploadId /\ w.key = upload_info.key)

\* C13: every upload call and the complete call of a multipart put carry the
\* uploadId the create call returned and, URL-quoted, the key it returned;
\* the pair the put holds is the one of the create response and never changes
\* once it is set
C13_MpuCallsCarryQuotedKey ==
    /\ [](/\ \A w \in issued :
               w.kind \in {"upload", "complete"} =>
                   /\ upload_info # NoBody
                   /\ w.uploadId = upload_info.uploadId
                   /\ w.key = quote(upload_info.key)
          /\ (upload_info # NoBody /\ calls["complete"] = 0) =>
                 upload_info = req.resp.body)
    /\ [][upload_info # NoBody => upload_info' = upload_info]_vars

\* a put of several parts has returned: all its upload calls and its
\* complete call went out with the quoted key, which differs from the key
C13_Witness ==
    /\ op = "put" /\ multipart
    /\ pc = "done" /\ result.kind = "return"
    /\ calls["upload"] >= 2 /\ calls["complete"] = 1
    /\ quote(upload_info.key) # upload_info.key
    /\ \E w \in issued : w.kind = "complete" /\ w.key = quote(upload_info.key)

\* C14: when the issuer ends with no response or with a response whose status
\* is not 2xx, the handler of the operation raises BlobRequestError, whether
\* or not the body parses as JSON
C14_FailedResponseIsRequestError ==
    (rres.kind # "none" /\ (rq.resp.isNone \/ rq.resp.status \notin 200..299)) =>
        rres = Raise("BlobRequestError")

\* C16: delete of one URL string sends one POST to /delete whose JSON body
\* lists that string alone; delete of a list of strings sends one POST with
\* the list as it is; any other argument (a list with an element that is not
\* a string included) raises BlobConfigError and no request is sent
C16_DeleteNormalisesUrls ==
    (op = "delete") =>
        /\ \A k \in Kinds \ {"delete"} : calls[k] = 0
        /\ calls["delete"] <= 1
        /\ \A w \in issued :
              /\ w.kind = "delete"
              /\ w.method = "POST"
              /\ w.url = VERCEL_BLOB_API_BASE_URL \o "/delete"
              /\ delete_url.type \in {"str", "list"}
              /\ delete_url.type = "str" => w.json = <<delete_url.val>>
              /\ delete_url.type = "list" =>
                    /\ Len(w.json) = Len(delete_url.items)
                    /\ \A i \in DOMAIN w.json :
                          delete_url.items[i].isStr /\ w.json[i] = delete_url.items[i].val
        /\ (\/ delete_url.type \notin {"str", "list"}
            \/ \E i \in DOMAIN delete_url.items : ~delete_url.items[i].isStr) =>
              /\ issued = {}
              /\ calls["delete"] = 0
              /\ pc \in {"start", "done"}
              /\ (pc = "done" => result = Raise("BlobConfigError"))
        /\ (/\ pc \in {"request", "done"}
            /\ result # Raise("BlobConfigError")) => calls["delete"] = 1

\* delete of a list of two URLs has returned after one POST with both
C16_Witness ==
    /\ op = "delete"
    /\ delete_url.type = "list" /\ Len(delete_url.items) = 2
    /\ pc = "done" /\ result.kind = "return"
    /\ calls["delete"] = 1
    /\ \E w \in issued : w.json = <<BlobUrl, OtherUrl>>

\* C15: every request an operation hands to the issuer, the GET of
\* download_file included, carries an authorization header "Bearer <token>"
C15_EveryRequestAuthorized ==
    \A w \in issued \cup dissued :
        /\ w.authorization # NoVal
        /\ Len(w.authorization) > 7
        /\ SubSeq(w.authorization, 1, 7) = "Bearer "

\* C17: download_file with a destination directory that does not exist ends
\* with BlobFileError raised to the caller and no file written
C17_MissingDirectoryIsFileError ==
    (dpc = "done" /\ lstrip(dpath) # "" /\ lstrip(dpath) \notin dirs) =>
        /\ dres = RaiseFrom("BlobFileError")
        /\ ~dfile.written

\* C18: a download_file call that succeeds has written the bytes of the
\* response body to the file and returns these bytes
C18_DownloadReturnsBytes ==
    (dpc = "done" /\ dres.kind = "return") =>
        /\ dfile.written
        /\ dfile.content = drq.resp.content
        /\ ~dres.isNone
        /\ dres.bytes = drq.resp.content

\* C19 as stated: for the same options the access, x-api-version,
\* x-cache-control-max-age, x-add-random-suffix and x-allow-overwrite headers
\* of copy are the ones of put
C19_CopyHeadersAsPut ==
    (hput.kind = "headers" /\ hcopy.kind = "headers") =>
        /\ hcopy.access = hput.access
        /\ hcopy.xApiVersion = hput.xApiVersion
        /\ hcopy.xCacheControlMaxAge = hput.xCacheControlMaxAge
        /\ hcopy.xAddRandomSuffix = hput.xAddRandomSuffix
        /\ hcopy.xAllowOverwrite = hput.xAllowOverwrite

\* C19: for the same options copy fails on the token exactly when put does,
\* its access, authorization, x-api-version and x-cache-control-max-age
\* headers are the ones of put, and it never sends x-allow-overwrite
C19_CopySharesBasicHeaders ==
    (hput.kind # "none" /\ hcopy.kind # "none") =>
        /\ hcopy.kind = hput.kind
        /\ hcopy.error = hput.error
        /\ hcopy.access = hput.access
        /\ hcopy.authorization = hput.authorization
        /\ hcopy.xApiVersion = hput.xApiVersion
        /\ hcopy.xCacheControlMaxAge = hput.xCacheControlMaxAge
        /\ hcopy.xAllowOverwrite = NoVal

\* both have built their headers from options with a cache age and an
\* allowOverwrite that put honours
C19_Witness ==
    /\ hput.kind = "headers" /\ hcopy.kind = "headers"
    /\ hoptions.cacheControlMaxAge = "60"
    /\ hoptions.allowOverwrite = PyStr("true")
    /\ hput.xCacheControlMaxAge = "60" /\ hcopy.xCacheControlMaxAge = "60"
    /\ hput.xAllowOverwrite = "1"
    /\ hcopy.xAllowOverwrite = NoVal

\* C20: copy asks for a random suffix exactly when addRandomSuffix is given
\* a true value, and not when it is absent or false
C20_CopySuffixOnlyWhenTrue ==
    (hcopy.kind = "headers") =>
        (hcopy.xAddRandomSuffix = "1" <=>
            hoptions.addRandomSuffix \in {PyStr("true"), PyStr("1"), PyBool("True"), PyInt("1")})

\* C21: put sends x-add-random-suffix: 0 exactly when addRandomSuffix is
\* "false", False or "0" (0, which Python takes for False, included) and
\* leaves the header out otherwise; it sends x-allow-overwrite: 1 exactly
\* when allowOverwrite is "true", True or "1"; the create call of a multipart
\* put carries the same two headers
C21_PutSuffixAndOverwriteHeaders ==
    /\ (hput.kind = "headers") =>
          /\ hput.xAddRandomSuffix =
                (IF hoptions.addRandomSuffix \in
                        {PyStr("false"), PyBool("False"), PyStr("0"), PyInt("0")}
                 THEN "0" ELSE NoVal)
          /\ hput.xAllowOverwrite =
                (IF hoptions.allowOverwrite \in
                        {PyStr("true"), PyBool("True"), PyStr("1"), PyInt("1")}
                 THEN "1" ELSE NoVal)
    /\ (hcreate.kind # "none") =>
          /\ hcreate.kind = "headers"
          /\ hcreate.xMpuAction = "create"
          /\ hcreate.xAddRandomSuffix = hput.xAddRandomSuffix
          /\ hcreate.xAllowOverwrite = hput.xAllowOverwrite

\* the create call of a put with addRandomSuffix False and allowOverwrite
\* "1" carries both headers
C21_Witness ==
    /\ hoptions.addRandomSuffix = PyBool("False")
    /\ hoptions.allowOverwrite = PyStr("1")
    /\ hcreate.kind = "headers"
    /\ hcreate.xAddRandomSuffix = "0"
    /\ hcreate.xAllowOverwrite = "1"

\* C22: blob_store.put called with a path that is not a string, data that is
\* not bytes or options that is not a dictionary ends with BlobConfigError
\* before any request
C22_BadArgumentIsConfigError ==
    (/\ cvia = "blob_store"
     /\ cpc = "done"
     /\ (cargs.path # "str" \/ cargs.data # "bytes" \/ cargs.options # "dict")) =>
        /\ cres = "BlobConfigError"
        /\ csent = {}

\* C23: the put of the package takes a multipart flag, and a call with
\* multipart=True ends with the create, upload and complete requests made
C23_PackagePutRunsMultipart ==
    (/\ cvia = "package"
     /\ cargs.multipart = "True"
     /\ cargs.path = "str" /\ cargs.data = "bytes" /\ cargs.options = "dict"
     /\ cpc = "done") =>
        /\ cres = NoVal
        /\ {r.kind : r \in csent} = {"create", "upload", "complete"}

\* C24: every request of a put is made with the timeout the caller passed
\* to put, in the single-shot path and in the multipart path
C24_RequestsUseTimeoutOfPut ==
    (cargs.timeout # 0) => \A r \in csent : r.timeout = cargs.timeout

\* C25: a failed attempt k that is followed by another attempt is followed by
\* a wait of backoff * k, after a 502/503/504 as after an exception, and an
\* attempt that ends the call is followed by no wait
C25_BackoffBetweenAttempts ==
    \A k \in 1..Len(rlog) :
        /\ k < Len(rlog) => rlog[k].slept = BACKOFF_FACTOR * k
        /\ (k = Len(rlog) /\ rq.done) => rlog[k].slept = 0

\* C26: when put has raised after a failed part upload, every part-upload
\* task handed to the pool has resolved: none is running and none waits
C26_NoWorkerOutlivesPut ==
    (pc = "done" /\ task # <<>>) =>
        /\ InFlight = {}
        /\ Resolved = DOMAIN task

\* put has raised for a failed part after a part that was still under way
\* when the failure was seen had run to its end
C26_Witness ==
    /\ pc = "done"
    /\ result.kind = "raise"
    /\ \E n \in DOMAIN task : task[n].st = "failed" /\ task[n].collected
    /\ \E n \in DOMAIN task : task[n].st = "ok" /\ ~task[n].collected

\* C27: once the coordinator has seen a failed part upload, no part upload
\* that has not started yet is started
C27_NoStartAfterFailure ==
    [][pc = "shutdown" =>
          \A n \in DOMAIN task : task[n].st = "queued" => task'[n].st = "queued"]_vars

\* C28: each part of a multipart put is handed to the issuer once, whether it
\* succeeds or fails, and its request makes at most 3 attempts
C28_EachPartIssuedOnce ==
    /\ calls["upload"] = Cardinality(UploadsIssued)
    /\ calls["upload"] = Cardinality({w.partNumber : w \in UploadsIssued})
    /\ calls["upload"] = Cardinality(TasksIn({"running", "ok", "failed"}))
    /\ \A w \in UploadsIssued : w.partNumber \in DOMAIN task
    /\ \A n \in DOMAIN task : task[n].attempt < MAX_RETRY_REQUEST_RETRIES

\* a put of three parts has raised: one part failed and each of the three
\* was issued once
C28_Witness ==
    /\ pc = "done"
    /\ Len(task) = 3
    /\ TasksIn({"failed"}) # {}
    /\ calls["upload"] = 3
    /\ Cardinality(UploadsIssued) = 3

\* the response has an etag header that is not empty
HasEtagHeader == eresp.etagHdr # NoVal /\ eresp.etagHdr # ""

\* C29: the etag of the descriptor of a part answered 200 is the etag header
\* of the response when that header is there and not empty; only otherwise
\* the etag field of the JSON body, and only if the body has no etag key its
\* ETag field
C29_EtagHeaderThenBody ==
    (epc \in {"uploaded", "done"}) =>
        /\ eresp.status = 200
        /\ edesc.partNumber = epart
        /\ HasEtagHeader => edesc.etag = eresp.etagHdr
        /\ (~HasEtagHeader /\ eresp.body.etag \notin {NoVal, ""}) =>
              edesc.etag = eresp.body.etag
        /\ (~HasEtagHeader /\ eresp.body.etag = NoVal /\ eresp.body.ETag # NoVal) =>
              edesc.etag = eresp.body.ETag
        /\ (~HasEtagHeader /\ eresp.body.etag # NoVal) => edesc.etag # eresp.body.ETag

\* the header has won over both fields of the body
C29_Witness ==
    /\ epc = "uploaded"
    /\ eresp.etagHdr = "etag-h"
    /\ eresp.body.etag = "etag-b"
    /\ eresp.body.ETag = "ETag-b"
    /\ edesc.etag = "etag-h"

\* no etag can be read from the response
NoEtagInResponse ==
    /\ ~HasEtagHeader
    /\ eresp.body.etag \in {NoVal, ""}
    /\ (eresp.body.etag = NoVal => eresp.body.ETag = NoVal)

\* C30 as stated: a 200 response to a part upload without an etag in its
\* headers or body never fails the part, and every descriptor of the
\* complete call has a partNumber >= 1 and an etag that is not empty
C30_NoEtagNeverFailsPart ==
    (epc # "start" /\ ~eresp.isNone /\ eresp.status = 200 /\ NoEtagInResponse) =>
        /\ epc # "failed"
        /\ edesc.partNumber >= 1
        /\ edesc.etag \notin {NoVal, ""}

\* C30: a 200 response to a part upload whose body parses as JSON and that
\* has no etag in its headers or body does not fail the part: the etag is
\* the placeholder made of the part number and the time; every descriptor
\* of the complete call has a partNumber >= 1 and an etag that is not empty
C30_PlaceholderEtag ==
    /\ (epc # "start" /\ ~eresp.isNone /\ eresp.status = 200 /\ eresp.jsonOk) =>
          /\ epc # "failed"
          /\ edesc.partNumber = epart
          /\ edesc.partNumber >= 1
          /\ edesc.etag \notin {NoVal, ""}
          /\ NoEtagInResponse =>
                edesc.etag = "\"part-" \o ToString(epart) \o "-" \o ToString(enow) \o "\""
    /\ (epc = "done") =>
          /\ Len(eparts) = 1
          /\ \A i \in DOMAIN eparts :
                eparts[i].partNumber >= 1 /\ eparts[i].etag \notin {NoVal, ""}

\* the complete call of a part whose response had an empty etag field
\* carries the placeholder
C30_Witness ==
    /\ epc = "done"
    /\ eresp.etagHdr = NoVal
    /\ eresp.body.etag = ""
    /\ eresp.body.ETag = "ETag-b"
    /\ epart = 2
    /\ eparts[1].etag = "\"part-2-1700000001\""

\* C31: the executor of a multipart put is created with the caller's
\* maxConcurrentUploads when that is an integer of at least 1, and with 5
\* when the option is absent, is no integer or is below 1; it is never
\* created with less than one worker.
C31_EffectiveWorkerCount ==
    (mpc = "done" /\ mres = NoVal) =>
        LET m == moptions.maxConcurrentUploads IN
        /\ (m.type \in {"int", "bool"} /\ m.val >= 1) => mpool = m.val
        /\ (m.type \notin {"int", "bool"} \/ m.val < 1) => mpool = 5
        /\ mpool >= 1
C31_Witness ==
    /\ mpc = "done"
    /\ mres = NoVal
    /\ moptions.maxConcurrentUploads = [type |-> "int", val |-> 0]
    /\ mpool = 5

\* C37 as stated: a multipart put whose pathname is empty, longer than 950
\* characters or contains "//" raises BlobRequestError without any request.
C37_InvalidPathnameRaisesRequestError ==
    (mpc = "done" /\ (mpath = "" \/ Len(mpath) > 950 \/ Contains(mpath, "//"))) =>
        mres = "BlobRequestError" /\ msent = {}
\* C37: such a put issues no request; it raises BlobRequestError when a token
\* is at hand, and BlobConfigError when neither the options nor the
\* environment hold one, because the headers are built before the pathname
\* is validated.
C37_InvalidPathnameNoRequest ==
    (mpc = "done" /\ (mpath = "" \/ Len(mpath) > 950 \/ Contains(mpath, "//"))) =>
        /\ msent = {}
        /\ mres = IF moptions.token # NoVal \/ menvToken \notin {NoVal, ""}
                  THEN "BlobRequestError" ELSE "BlobConfigError"
C37_Witness ==
    /\ mpc = "done"
    /\ mpath = "a//b.txt"
    /\ moptions.token = NoVal
    /\ menvToken = "tok-env"
    /\ mres = "BlobRequestError"
    /\ msent = {}

\* C38: download_file raises BlobRequestError and writes no file when the
\* final response to its GET has a status outside 2xx or when there is no
\* response; a file is written from a 2xx response only.
C38_DownloadFailsOnBadStatus ==
    (dpc = "done" /\ drq.done) =>
        /\ (drq.resp.isNone \/ drq.resp.status \notin 200..299) =>
               (dres = RaiseFrom("BlobRequestError") /\ ~dfile.written)
        /\ dfile.written => (~drq.resp.isNone /\ drq.resp.status \in 200..299)

C36_EmptyPayloadCompletesWithoutParts ==
    (op = "put" /\ multipart /\ Len(data) = 0) =>
        /\ chunks = <<>> /\ task = <<>> /\ parts = <<>>
        /\ calls["upload"] = 0
        /\ \A w \in issued : w.kind # "upload"
        /\ \A w \in issued : w.kind = "complete" => w.json = <<>>
        /\ (pc = "done" /\ upload_info.uploadId # NoVal) => calls["complete"] = 1
C36_Witness ==
    /\ op = "put" /\ multipart /\ Len(data) = 0
    /\ pc = "done" /\ result.kind = "return"
    /\ calls["create"] = 1 /\ calls["upload"] = 0 /\ calls["complete"] = 1
    /\ \E w \in issued : w.kind = "complete" /\ w.json = <<>>

\* C33: a slot of the parts list that holds a descriptor is never written
\* again, a step writes one slot at most, and the slot with Python index i
\* (position i + 1 here) only ever receives the descriptor of part i + 1, so
\* no two parts are written to the same slot.
C33_SlotsWrittenOnce ==
    /\ [](\A i \in DOMAIN parts : parts[i] # NoPart => parts[i].partNumber = i)
    /\ [][(\A i \in DOMAIN parts :
                /\ parts[i] # NoPart => parts'[i] = parts[i]
                /\ parts'[i] # parts[i] => parts'[i].partNumber = i)
           /\ Cardinality({j \in DOMAIN parts : parts'[j] # parts[j]}) <= 1]_vars
C33_Witness ==
    /\ Len(parts) >= 3
    /\ parts[1] = NoPart
    /\ parts[2] # NoPart /\ parts[2].partNumber = 2
    /\ parts[3] # NoPart /\ parts[3].partNumber = 3

\* the state of the upload session of a multipart put, as the calling thread
\* sees it: 0 NotStarted (the create call included), 1 SessionCreated, 2
\* PartsUploading (from the first submit to the end of the with-block), 3
\* PartsComplete (the complete call), 4 Finalized, 5 Aborted
Phase ==
    IF pc \in {"start", "create"} THEN 0
    ELSE IF pc = "submit" /\ \A i \in DOMAIN task : task[i].st = "unsubmitted" THEN 1
    ELSE IF pc \in {"submit", "collect", "shutdown"} THEN 2
    ELSE IF pc = "complete" THEN 3
    ELSE IF result.kind = "return" THEN 4
    ELSE 5

\* C34: a step of a multipart put leaves the session in its state, moves it
\* to the next state, or, from a state before Finalized, to Aborted; once
\* the put has returned or raised nothing changes any more: no request is
\* issued and no part is started.
C34_ForwardOnly ==
    [][(op = "put" /\ multipart) =>
           /\ \/ Phase' = Phase
              \/ Phase <= 3 /\ Phase' = Phase + 1
              \/ Phase <= 3 /\ Phase' = 5
           /\ Phase >= 4 =>
                  (issued' = issued /\ calls' = calls /\ task' = task /\ Phase' = Phase)]_vars
C34_Witness ==
    /\ op = "put" /\ multipart
    /\ Phase = 5
    /\ calls["create"] = 1 /\ calls["upload"] >= 2 /\ calls["complete"] = 0
    /\ \E n \in DOMAIN task : task[n].st = "failed"
    /\ \E n \in DOMAIN task : task[n].st = "ok"

\* C35: every call of an operation, a put with or without multipart
\* included, eventually returns or raises.
C35_PutTerminates == <>(pc = "done")
C35_Witness ==
    /\ op = "put" /\ multipart
    /\ pc = "done" /\ result.kind = "raise"
    /\ Len(task) = 3
    /\ \A n \in DOMAIN task : task[n].st = "failed"

\* the calls of pbar.update made for a part
UpdatesOf(n) == {k \in 1..Len(gupdates) : gupdates[k].part = n}

\* C32, the calls: in a verbose multipart put pbar.update is called once for
\* each part whose upload call has returned, with the length of its chunk,
\* and never for a failed part
ProgressCalls ==
    gverbose =>
        /\ \A k \in 1..Len(gupdates) :
              /\ gtask[gupdates[k].part] \in {"read", "done"}
              /\ gupdates[k].delta = Len(ProgressChunks[gupdates[k].part].bytes)
        /\ \A n \in DOMAIN gtask :
              /\ Cardinality(UpdatesOf(n)) <= 1
              /\ gtask[n] = "failed" => UpdatesOf(n) = {}
              /\ gtask[n] = "done" => Cardinality(UpdatesOf(n)) = 1

====
